---- MODULE Spec2Model ----
(***************************************************************************)
(* sdbh: the history store (history / history_hash tables), the atomic     *)
(* insert_history, the fingerprint row_hash, the numeric coercion          *)
(* value_to_i64 and the cross-database merge import_from_db                *)
(* (src/sdbh/src/db.rs).                                                   *)
(*                                                                         *)
(* Text is a sequence of one-character strings.  SQLite values read from   *)
(* a source database are records tagged with their storage class.          *)
(***************************************************************************)
EXTENDS Integers, Sequences, FiniteSets

\* ------------------------------------------------------------------ bounds
\* longest source history table (rows) enumerated for one import
MaxSrcLen == 2
\* largest number of rows the destination history table may hold
MaxRows == 3

\* ------------------------------------------------------------ Option<i64>
None == [some |-> FALSE, v |-> 0]

Some(x) == [some |-> TRUE, v |-> x]

\* an absent Option<String>
NoText == [some |-> FALSE, v |-> <<>>]

\* ------------------------------------------------------------------- text
Digits == <<"0", "1", "2", "3", "4", "5", "6", "7", "8", "9">>

IsDigit(c) == \E i \in 1..10 : Digits[i] = c

DigitVal(c) == (CHOOSE i \in 1..10 : Digits[i] = c) - 1

\* char::is_whitespace, restricted to the characters the model uses
IsWhitespace(c) == c \in {" ", "\n", "\t"}

\* i64::to_string for a natural number
RECURSIVE DecNat(_)
DecNat(n) == IF n < 10 THEN <<Digits[n + 1]>>
             ELSE DecNat(n \div 10) \o <<Digits[(n % 10) + 1]>>

\* i64::to_string
to_string(n) == IF n < 0 THEN <<"-">> \o DecNat(0 - n) ELSE DecNat(n)

\* str::trim_start
RECURSIVE TrimStart(_)
TrimStart(s) == IF s # <<>> /\ IsWhitespace(Head(s)) THEN TrimStart(Tail(s)) ELSE s

\* str::trim_end
RECURSIVE TrimEnd(_)
TrimEnd(s) == IF s # <<>> /\ IsWhitespace(s[Len(s)])
              THEN TrimEnd(SubSeq(s, 1, Len(s) - 1)) ELSE s

\* str::trim
Trim(s) == TrimEnd(TrimStart(s))

\* the leading run of non-whitespace characters of s
RECURSIVE TakeToken(_)
TakeToken(s) == IF s = <<>> \/ IsWhitespace(Head(s)) THEN <<>>
                ELSE <<Head(s)>> \o TakeToken(Tail(s))

\* str::split_whitespace, collected: the non-empty maximal runs of
\* non-whitespace characters, in order
RECURSIVE SplitWhitespace(_)
SplitWhitespace(s) ==
    LET t == TrimStart(s) IN
    IF t = <<>> THEN <<>>
    ELSE LET tok == TakeToken(t) IN
         <<tok>> \o SplitWhitespace(SubSeq(t, Len(tok) + 1, Len(t)))

\* str::trim_end_matches('*'): removes every trailing '*'
RECURSIVE TrimEndMatchesStar(_)
TrimEndMatchesStar(s) == IF s # <<>> /\ s[Len(s)] = "*"
                         THEN TrimEndMatchesStar(SubSeq(s, 1, Len(s) - 1)) ELSE s

\* value of a non-empty all-digit text
RECURSIVE DigitsValue(_)
DigitsValue(s) == IF s = <<>> THEN 0
                  ELSE DigitsValue(SubSeq(s, 1, Len(s) - 1)) * 10 + DigitVal(s[Len(s)])

AllDigits(s) == s # <<>> /\ \A i \in 1..Len(s) : IsDigit(s[i])

\* str::parse::<i64>().ok(): an optional sign followed by one or more
\* digits.  The texts of the model are short, so the i64 overflow error
\* of parse is out of reach.
ParseI64(tok) ==
    IF tok = <<>> THEN None
    ELSE IF Head(tok) = "-"
         THEN (IF AllDigits(Tail(tok)) THEN Some(0 - DigitsValue(Tail(tok))) ELSE None)
    ELSE IF Head(tok) = "+"
         THEN (IF AllDigits(Tail(tok)) THEN Some(DigitsValue(Tail(tok))) ELSE None)
    ELSE IF AllDigits(tok) THEN Some(DigitsValue(tok)) ELSE None

\* --------------------------------------------------- rusqlite types::Value
Null == [t |-> "Null"]

Integer(i) == [t |-> "Integer", i |-> i]

\* a finite REAL with integral part whole and fractional part tenths/10
\* (fract() of NaN and of the infinities is NaN, which value_to_i64
\* rejects like any non-zero fraction)
Real(whole, tenths) == [t |-> "Real", whole |-> whole, tenths |-> tenths]

Text(s) == [t |-> "Text", s |-> s]

Blob == [t |-> "Blob"]

\* the closure parse_token of value_to_i64
parse_token(tok) == ParseI64(TrimEndMatchesStar(tok))

\* faulty variant: the second token is never tried
value_to_i64FirstTokenOnly(v) ==
    CASE v.t = "Null" -> None
      [] v.t = "Integer" -> Some(v.i)
      [] v.t = "Real" -> IF v.tenths = 0 THEN Some(v.whole) ELSE None
      [] v.t = "Text" ->
            LET s == Trim(v.s) IN
            IF s = <<>> THEN None
            ELSE LET it == SplitWhitespace(s)
                     t1 == IF Len(it) >= 1 THEN it[1] ELSE <<>>
                 IN  parse_token(t1)
      [] v.t = "Blob" -> None

value_to_i64(v) ==
    CASE v.t = "Null" -> None
      [] v.t = "Integer" -> Some(v.i)
      [] v.t = "Real" -> IF v.tenths = 0 THEN Some(v.whole) ELSE None
      [] v.t = "Text" ->
            LET s == Trim(v.s) IN
            IF s = <<>> THEN None
            ELSE LET it == SplitWhitespace(s)
                     t1 == IF Len(it) >= 1 THEN it[1] ELSE <<>>
                     t2 == IF Len(it) >= 2 THEN it[2] ELSE <<>>
                 IN  IF parse_token(t1).some THEN parse_token(t1) ELSE parse_token(t2)
      [] v.t = "Blob" -> None

\* ------------------------------------------------------------- HistoryRow
HistoryRow(hist_id, cmd, epoch, ppid, pwd, salt) ==
    [hist_id |-> hist_id, cmd |-> cmd, epoch |-> epoch, ppid |-> ppid,
     pwd |-> pwd, salt |-> salt]

\* faulty variant: an absent hist_id is hashed as 0
HashInputHistZero(row) ==
    to_string(row.epoch) \o <<"\n">> \o
    to_string(row.ppid) \o <<"\n">> \o
    to_string(row.salt) \o <<"\n">> \o
    (IF row.hist_id.some THEN to_string(row.hist_id.v) ELSE <<"0">>) \o <<"\n">> \o
    row.pwd \o <<"\n">> \o
    row.cmd

\* the byte sequence row_hash feeds to the hasher
HashInput(row) ==
    to_string(row.epoch) \o <<"\n">> \o
    to_string(row.ppid) \o <<"\n">> \o
    to_string(row.salt) \o <<"\n">> \o
    (IF row.hist_id.some THEN to_string(row.hist_id.v) ELSE <<>>) \o <<"\n">> \o
    row.pwd \o <<"\n">> \o
    row.cmd

\* SHA-256 rendered as lowercase hex, taken as injective on its input:
\* the digest is represented by the bytes it was computed from
Sha256Hex(bytes) == <<"sha256", bytes>>

row_hash(row) == Sha256Hex(HashInput(row))

\* ------------------------------------------------------------ the store
\* One database file: the history table (rows in id order), the
\* history_hash table (a set of (hash, history_id) entries) and the
\* AUTOINCREMENT counter of history (sqlite_sequence).
EmptyDb == [history |-> <<>>, history_hash |-> {}, seq |-> 0]

StoredRow(id, row) ==
    [id |-> id, hist_id |-> row.hist_id, cmd |-> row.cmd, epoch |-> row.epoch,
     ppid |-> row.ppid, pwd |-> row.pwd, salt |-> row.salt]

\* INSERT INTO history(hist_id, cmd, epoch, ppid, pwd, salt) VALUES (...)
\* with id INTEGER PRIMARY KEY AUTOINCREMENT
InsertHistoryRow(db, row) ==
    [db EXCEPT !.history = Append(@, StoredRow(db.seq + 1, row)),
               !.seq = @ + 1]

\* faulty variant: the rowid is read before the history row is inserted
last_insert_rowidStale(db) == db.seq - 1

\* last_insert_rowid() after InsertHistoryRow
last_insert_rowid(db) == db.seq

\* faulty variant: the existence check never finds the fingerprint
HashExistsNever(db, hash) == FALSE

\* SELECT EXISTS(SELECT 1 FROM history_hash WHERE hash=?1)
HashExists(db, hash) == \E e \in db.history_hash : e.hash = hash

\* faulty variant: INSERT OR REPLACE, the entry is pointed at the new row
InsertOrReplaceHash(db, hash, id) ==
    [ok |-> TRUE,
     db |-> [db EXCEPT !.history_hash =
                 { e \in @ : e.hash # hash } \cup {[hash |-> hash, history_id |-> id]}]]

\* faulty variant: plain INSERT, a second row for the primary key is a constraint
\* error
InsertPlainHash(db, hash, id) ==
    [ok |-> ~(\E e \in db.history_hash : e.hash = hash),
     db |-> [db EXCEPT !.history_hash =
                 @ \cup {[hash |-> hash, history_id |-> id]}]]

\* INSERT OR IGNORE INTO history_hash(hash, history_id) VALUES (?1, ?2)
\* with hash TEXT PRIMARY KEY: a conflicting row is left as it is and the
\* statement succeeds
InsertOrIgnoreHash(db, hash, id) ==
    [ok |-> TRUE,
     db |-> IF \E e \in db.history_hash : e.hash = hash THEN db
            ELSE [db EXCEPT !.history_hash =
                                @ \cup {[hash |-> hash, history_id |-> id]}]]

\* ------------------------------------------------------------ the inputs
ls == <<"l", "s">>

root == <<"/">>

\* rows a caller may hand to insert_history
InsertRowPool ==
    { HistoryRow(Some(1), ls, 5, 7, root, 9),
      HistoryRow(None, <<"b", "\n", "c">>, 5, 7, <<"a">>, 9) }

\* a row of a source history table, as the six column values SQLite holds
SrcRow(hist_id, cmd, epoch, ppid, pwd, salt) ==
    [hist_id |-> hist_id, cmd |-> cmd, epoch |-> epoch, ppid |-> ppid,
     pwd |-> pwd, salt |-> salt]

SrcRowPool ==
    { \* a well-formed row
      SrcRow(Integer(1), Text(ls), Integer(5), Integer(7), Text(root), Integer(9)),
      \* two rows whose pwd and cmd differ but join to the same bytes; one
      \* has no hist_id and a REAL epoch, the other a damaged hist_id and a
      \* damaged but recoverable epoch
      SrcRow(Null, Text(<<"c">>), Real(5, 0), Integer(7),
             Text(<<"a", "\n", "b">>), Integer(9)),
      SrcRow(Text(<<"x">>), Text(<<"b", "\n", "c">>),
             Text(<<" ", "5", "*", " ", "x">>), Integer(7), Text(<<"a">>), Integer(9)),
      \* unparseable epoch, ppid, salt
      SrcRow(Integer(2), Text(<<"b", "a", "d">>), Text(<<"b", "a", "d">>),
             Integer(7), Text(root), Integer(9)),
      SrcRow(Integer(2), Text(<<"b", "a", "d">>), Integer(5), Real(7, 5),
             Text(root), Integer(9)),
      SrcRow(Integer(2), Text(<<"b", "a", "d">>), Integer(5), Integer(7),
             Text(root), Blob),
      \* cmd and hist_id are NULL
      SrcRow(Null, Null, Integer(5), Integer(7), Text(root), Integer(9)),
      \* pwd is a BLOB and epoch is the empty text
      SrcRow(Integer(3), Text(ls), Text(<<>>), Integer(7), Blob, Integer(9)) }

SeqsUpTo(S, n) == UNION { [1..k -> S] : k \in 0..n }

\* the source files an import may be pointed at
Sources ==
    { [kind |-> "unopenable", rows |-> <<>>], [kind |-> "no_history", rows |-> <<>>] }
    \cup { [kind |-> "history", rows |-> rs] : rs \in SeqsUpTo(SrcRowPool, MaxSrcLen) }

\* ------------------------------------------------------------- the state
VARIABLES
    disk,        \* the destination file: what is committed
    work,        \* the destination as the open connection sees it
    intx,        \* the connection has a transaction open
    pc,          \* "idle", or the place import_from_db has reached
    src,         \* import_from_db: the source being read
    idx,         \* import_from_db: position of the next source row
    considered,  \* import_from_db: local counters
    inserted,
    skipped_bad,
    skipped_dup, \* rows that took the `if exists { continue }` branch
    pre,         \* the destination file when the running import began
    result,      \* what the most recent call returned (none while one runs)
    merged,      \* the source rows whose import into an empty store
                 \* produced the present file, as long as nothing was
                 \* written and no other source was imported since
    call,        \* query layer and pure functions: the function applied
                 \* and its arguments
    ret          \* what it returned

vars == <<disk, work, intx, pc, src, idx, considered, inserted, skipped_bad,
          skipped_dup, pre, result, merged, call, ret>>

\* the variables of the store and of the connection
store == <<disk, work, intx, pc, src, idx, considered, inserted, skipped_bad,
           skipped_dup, pre, result, merged>>

locals == <<src, idx, considered, inserted, skipped_bad, skipped_dup, pre>>

\* no function has been applied
NoCall == [fn |-> "none"]

NoSource == [kind |-> "none", rows |-> <<>>]

NotMerged == [known |-> FALSE, rows |-> <<>>]

NoResult == [op |-> "none", ok |-> TRUE, err |-> "", id |-> 0, considered |-> 0,
             inserted |-> 0]

\* Err(e) returned by insert_history
InsertErr(e) == [NoResult EXCEPT !.op = "insert", !.ok = FALSE, !.err = e]

\* Err(e) returned by import_from_db
ImportErr(e) == [NoResult EXCEPT !.op = "import", !.ok = FALSE, !.err = e]

\* the locals of import_from_db go out of scope
Return ==
    /\ src' = NoSource
    /\ idx' = 0
    /\ considered' = 0
    /\ inserted' = 0
    /\ skipped_bad' = 0
    /\ skipped_dup' = 0
    /\ pre' = EmptyDb

Init ==
    /\ disk = EmptyDb
    /\ work = EmptyDb
    /\ intx = FALSE
    /\ pc = "idle"
    /\ src = NoSource
    /\ idx = 0
    /\ considered = 0
    /\ inserted = 0
    /\ skipped_bad = 0
    /\ skipped_dup = 0
    /\ pre = EmptyDb
    /\ result = NoResult
    /\ merged = NotMerged
    /\ call = NoCall
    /\ ret = NoCall

\* ----------------------------------------------------------------- open_db
\* The process ends and a new one opens the store: the old connection is
\* dropped, which rolls back a transaction it still holds; init_schema only
\* creates what does not exist.
open_db ==
    /\ pc = "idle"
    /\ work' = disk
    /\ intx' = FALSE
    /\ UNCHANGED <<disk, pc, locals, result, merged>>
    /\ UNCHANGED <<call, ret>>

\* The process is interrupted inside import_from_db: nothing of the open
\* transaction reaches the file.
Interrupt ==
    /\ pc # "idle"
    /\ work' = disk
    /\ intx' = FALSE
    /\ pc' = "idle"
    /\ result' = NoResult
    /\ Return
    /\ UNCHANGED <<disk, merged>>
    /\ UNCHANGED <<call, ret>>

\* ---------------------------------------------------------- insert_history
\* conn.transaction() fails when the connection already has a transaction
\* open; nothing is executed.
InsertHistoryNoTx(row) ==
    /\ pc = "idle"
    /\ intx
    /\ result' = InsertErr("begin")
    /\ UNCHANGED <<disk, work, intx, pc, locals, merged>>
    /\ UNCHANGED <<call, ret>>

\* faulty variant: the statements run in autocommit mode, the history row
\* stays when the fingerprint statement fails
InsertHistoryFailsHalfWritten(row) ==
    /\ pc = "idle"
    /\ ~intx
    /\ Len(work.history) < MaxRows
    /\ disk' = InsertHistoryRow(work, row)
    /\ work' = InsertHistoryRow(work, row)
    /\ result' = InsertErr("statement")
    /\ merged' = NotMerged
    /\ UNCHANGED <<intx, pc, locals>>
    /\ UNCHANGED <<call, ret>>

\* One of the statements or the commit fails: the Transaction is dropped
\* and rolls back.
InsertHistoryFails(row) ==
    /\ pc = "idle"
    /\ ~intx
    /\ result' = InsertErr("statement")
    /\ UNCHANGED <<disk, work, intx, pc, locals, merged>>
    /\ UNCHANGED <<call, ret>>

InsertHistory(row) ==
    /\ pc = "idle"
    /\ ~intx
    /\ Len(work.history) < MaxRows
    /\ LET tx1 == InsertHistoryRow(work, row)
           id == last_insert_rowid(tx1)
           hash == row_hash(row)
           r == InsertOrIgnoreHash(tx1, hash, id)
       IN  IF r.ok
           THEN /\ disk' = r.db
                /\ work' = r.db
                /\ result' = [NoResult EXCEPT !.op = "insert", !.id = id]
                /\ merged' = NotMerged
           ELSE /\ UNCHANGED <<disk, work, merged>>
                /\ result' = InsertErr("constraint")
    /\ UNCHANGED <<intx, pc, locals>>
    /\ UNCHANGED <<call, ret>>

\* ---------------------------------------------------------- import_from_db
\* r.get::<_, String>(..) of the query_map closure: only a TEXT value
\* converts to String; r.get::<_, Value>(..) accepts every value
RowReadable(raw) == raw.cmd.t = "Text" /\ raw.pwd.t = "Text"

\* the three `match value_to_i64(..)` of the loop body
NumericOk(raw) ==
    /\ value_to_i64(raw.epoch).some
    /\ value_to_i64(raw.ppid).some
    /\ value_to_i64(raw.salt).some

\* the HistoryRow the loop body builds from a readable, coercible source row
Coerce(raw) ==
    HistoryRow(value_to_i64(raw.hist_id), raw.cmd.s, value_to_i64(raw.epoch).v,
               value_to_i64(raw.ppid).v, raw.pwd.s, value_to_i64(raw.salt).v)

\* faulty variant: ORDER BY id DESC
QueryRowDesc(rows, i) == rows[Len(rows) + 1 - i]

\* the i-th row delivered by SELECT .. FROM history ORDER BY id ASC on a
\* source table whose rows are listed by id
QueryRow(rows, i) == rows[i]

\* Connection::open(from_path) fails
ImportOpenFails(s) ==
    /\ pc = "idle"
    /\ s.kind = "unopenable"
    /\ result' = ImportErr("open_source")
    /\ UNCHANGED <<disk, work, intx, pc, locals, merged>>
    /\ UNCHANGED <<call, ret>>

\* conn.execute_batch("BEGIN") fails: a transaction is already open
ImportBeginFails(s) ==
    /\ pc = "idle"
    /\ s.kind # "unopenable"
    /\ intx
    /\ result' = ImportErr("begin")
    /\ UNCHANGED <<disk, work, intx, pc, locals, merged>>
    /\ UNCHANGED <<call, ret>>

\* Connection::open(from_path) and conn.execute_batch("BEGIN")
ImportBegin(s) ==
    /\ pc = "idle"
    /\ s.kind # "unopenable"
    /\ ~intx
    /\ intx' = TRUE
    /\ pc' = "check"
    /\ src' = s
    /\ pre' = disk
    /\ result' = NoResult
    /\ merged' = IF merged.known /\ merged.rows = s.rows THEN merged ELSE NotMerged
    /\ UNCHANGED <<disk, work, idx, considered, inserted, skipped_bad, skipped_dup>>
    /\ UNCHANGED <<call, ret>>

\* faulty variant: a source without a history table is read as an empty one
ImportNoHistoryAsEmpty ==
    /\ pc = "check"
    /\ src.kind = "no_history"
    /\ pc' = "loop"
    /\ idx' = 1
    /\ considered' = 0
    /\ inserted' = 0
    /\ skipped_bad' = 0
    /\ skipped_dup' = 0
    /\ UNCHANGED <<disk, work, intx, src, pre, result, merged>>
    /\ UNCHANGED <<call, ret>>

\* `if !src_has_history { bail!(..) }`: returns with the transaction open
ImportNoHistory ==
    /\ pc = "check"
    /\ src.kind = "no_history"
    /\ pc' = "idle"
    /\ result' = ImportErr("no_history_table")
    /\ Return
    /\ UNCHANGED <<disk, work, intx, merged>>
    /\ UNCHANGED <<call, ret>>

\* the source has a history table: counters are zeroed, the SELECT ..
\* ORDER BY id ASC is prepared
ImportCheck ==
    /\ pc = "check"
    /\ src.kind = "history"
    /\ pc' = "loop"
    /\ idx' = 1
    /\ considered' = 0
    /\ inserted' = 0
    /\ skipped_bad' = 0
    /\ skipped_dup' = 0
    /\ UNCHANGED <<disk, work, intx, src, pre, result, merged>>
    /\ UNCHANGED <<call, ret>>

\* `row?`: the closure could not convert cmd or pwd
ImportRowReadError ==
    /\ pc = "loop"
    /\ idx <= Len(src.rows)
    /\ ~RowReadable(QueryRow(src.rows, idx))
    /\ pc' = "idle"
    /\ result' = ImportErr("invalid_column_type")
    /\ Return
    /\ UNCHANGED <<disk, work, intx, merged>>
    /\ UNCHANGED <<call, ret>>

\* faulty variant: considered is counted after the corrupted rows are skipped
ImportRowCorruptedUncounted ==
    /\ pc = "loop"
    /\ idx <= Len(src.rows)
    /\ RowReadable(QueryRow(src.rows, idx))
    /\ ~NumericOk(QueryRow(src.rows, idx))
    /\ skipped_bad' = skipped_bad + 1
    /\ idx' = idx + 1
    /\ UNCHANGED <<disk, work, intx, pc, src, considered, inserted, skipped_dup,
                   pre, result, merged>>
    /\ UNCHANGED <<call, ret>>

\* epoch, ppid or salt is not an integer: skipped_bad += 1; continue
ImportRowCorrupted ==
    /\ pc = "loop"
    /\ idx <= Len(src.rows)
    /\ RowReadable(QueryRow(src.rows, idx))
    /\ ~NumericOk(QueryRow(src.rows, idx))
    /\ considered' = considered + 1
    /\ skipped_bad' = skipped_bad + 1
    /\ idx' = idx + 1
    /\ UNCHANGED <<disk, work, intx, pc, src, inserted, skipped_dup, pre,
                   result, merged>>
    /\ UNCHANGED <<call, ret>>

\* faulty variant: considered is counted only for rows that are inserted
ImportRowExistsUncounted ==
    /\ pc = "loop"
    /\ idx <= Len(src.rows)
    /\ RowReadable(QueryRow(src.rows, idx))
    /\ NumericOk(QueryRow(src.rows, idx))
    /\ HashExists(work, row_hash(Coerce(QueryRow(src.rows, idx))))
    /\ skipped_dup' = skipped_dup + 1
    /\ idx' = idx + 1
    /\ UNCHANGED <<disk, work, intx, pc, src, considered, inserted, skipped_bad,
                   pre, result, merged>>
    /\ UNCHANGED <<call, ret>>

\* `if exists { continue }`
ImportRowExists ==
    /\ pc = "loop"
    /\ idx <= Len(src.rows)
    /\ RowReadable(QueryRow(src.rows, idx))
    /\ NumericOk(QueryRow(src.rows, idx))
    /\ HashExists(work, row_hash(Coerce(QueryRow(src.rows, idx))))
    /\ considered' = considered + 1
    /\ skipped_dup' = skipped_dup + 1
    /\ idx' = idx + 1
    /\ UNCHANGED <<disk, work, intx, pc, src, inserted, skipped_bad, pre,
                   result, merged>>
    /\ UNCHANGED <<call, ret>>

\* faulty variant: no transaction around the loop, every insert is committed as
\* it is made
ImportRowInsertAutocommit ==
    /\ pc = "loop"
    /\ idx <= Len(src.rows)
    /\ RowReadable(QueryRow(src.rows, idx))
    /\ NumericOk(QueryRow(src.rows, idx))
    /\ Len(work.history) < MaxRows
    /\ LET row == Coerce(QueryRow(src.rows, idx))
           hash == row_hash(row)
           w1 == InsertHistoryRow(work, row)
           r == InsertOrIgnoreHash(w1, hash, last_insert_rowid(w1))
       IN  /\ ~HashExists(work, hash)
           /\ work' = r.db
           /\ disk' = r.db
           /\ considered' = considered + 1
           /\ inserted' = inserted + 1
           /\ idx' = idx + 1
    /\ UNCHANGED <<intx, pc, result, src, skipped_bad, skipped_dup, pre, merged>>
    /\ UNCHANGED <<call, ret>>

\* the row is new: INSERT INTO history, INSERT OR IGNORE INTO history_hash
ImportRowInsert ==
    /\ pc = "loop"
    /\ idx <= Len(src.rows)
    /\ RowReadable(QueryRow(src.rows, idx))
    /\ NumericOk(QueryRow(src.rows, idx))
    /\ Len(work.history) < MaxRows
    /\ LET row == Coerce(QueryRow(src.rows, idx))
           hash == row_hash(row)
           w1 == InsertHistoryRow(work, row)
           r == InsertOrIgnoreHash(w1, hash, last_insert_rowid(w1))
       IN  /\ ~HashExists(work, hash)
           /\ IF r.ok
              THEN /\ work' = r.db
                   /\ considered' = considered + 1
                   /\ inserted' = inserted + 1
                   /\ idx' = idx + 1
                   /\ UNCHANGED <<pc, result, src, skipped_bad, skipped_dup, pre>>
              ELSE /\ work' = w1
                   /\ pc' = "idle"
                   /\ result' = ImportErr("constraint")
                   /\ Return
    /\ UNCHANGED <<disk, intx, merged>>
    /\ UNCHANGED <<call, ret>>

\* a statement on the destination fails (`?` on the EXISTS query or on
\* one of the two inserts): returns with the transaction open, with or
\* without the history row of this iteration in it
ImportRowStmtFails ==
    /\ pc = "loop"
    /\ idx <= Len(src.rows)
    /\ RowReadable(QueryRow(src.rows, idx))
    /\ NumericOk(QueryRow(src.rows, idx))
    /\ \/ work' = work
       \/ /\ ~HashExists(work, row_hash(Coerce(QueryRow(src.rows, idx))))
          /\ Len(work.history) < MaxRows
          /\ work' = InsertHistoryRow(work, Coerce(QueryRow(src.rows, idx)))
    /\ pc' = "idle"
    /\ result' = ImportErr("statement")
    /\ Return
    /\ UNCHANGED <<disk, intx, merged>>
    /\ UNCHANGED <<call, ret>>

\* conn.execute_batch("COMMIT") after the last source row, Ok((considered,
\* inserted))
ImportCommit ==
    /\ pc = "loop"
    /\ idx > Len(src.rows)
    /\ disk' = work
    /\ intx' = FALSE
    /\ pc' = "idle"
    /\ result' = [NoResult EXCEPT !.op = "import", !.considered = considered,
                                  !.inserted = inserted]
    /\ merged' = IF pre = EmptyDb THEN [known |-> TRUE, rows |-> src.rows]
                 ELSE IF work = disk THEN merged ELSE NotMerged
    /\ Return
    /\ UNCHANGED work
    /\ UNCHANGED <<call, ret>>

\* COMMIT fails: returns with the transaction open
ImportCommitFails ==
    /\ pc = "loop"
    /\ idx > Len(src.rows)
    /\ pc' = "idle"
    /\ result' = ImportErr("commit")
    /\ Return
    /\ UNCHANGED <<disk, work, intx, merged>>
    /\ UNCHANGED <<call, ret>>

Next ==
    \/ open_db
    \/ Interrupt
    \/ \E row \in InsertRowPool : InsertHistory(row)
    \/ \E row \in InsertRowPool : InsertHistoryFails(row)
    \/ \E row \in InsertRowPool : InsertHistoryNoTx(row)
    \/ \E s \in Sources : ImportOpenFails(s)
    \/ \E s \in Sources : ImportBeginFails(s)
    \/ \E s \in Sources : ImportBegin(s)
    \/ ImportNoHistory
    \/ ImportCheck
    \/ ImportRowReadError
    \/ ImportRowCorrupted
    \/ ImportRowExists
    \/ ImportRowInsert
    \/ ImportRowStmtFails
    \/ ImportCommit
    \/ ImportCommitFails

Spec == Init /\ [][Next]_vars

\* =================================================================== claims
\* the fingerprint of a stored history row
StoredHash(r) ==
    row_hash(HistoryRow(r.hist_id, r.cmd, r.epoch, r.ppid, r.pwd, r.salt))

\* the history rows of db whose fingerprint is h
RowsWithHash(db, h) == { i \in 1..Len(db.history) : StoredHash(db.history[i]) = h }

\* the history table of db holds two rows with one fingerprint
HasDuplicateRows(db) ==
    \E i, j \in 1..Len(db.history) : i # j /\ StoredHash(db.history[i]) = StoredHash(db.history[j])

\* every row that b has beyond a has a fingerprint no other row of b has
AddsNoDuplicate(a, b) ==
    \A i \in 1..Len(b.history) :
        i > Len(a.history) => RowsWithHash(b, StoredHash(b.history[i])) = {i}

\* every row of the source converts: cmd and pwd are text and epoch, ppid
\* and salt are integers
AllValid(rows) == \A i \in 1..Len(rows) : RowReadable(rows[i]) /\ NumericOk(rows[i])

\* the fingerprints of the valid rows of a source
SourceHashes(rows) ==
    { row_hash(Coerce(rows[i])) :
        i \in { k \in 1..Len(rows) : RowReadable(rows[k]) /\ NumericOk(rows[k]) } }

\* C1 (as stated): after any sequence of insert_history and import_from_db
\* the history table never holds two rows with equal fingerprints.
C1_NoTwoRowsShareFingerprint == ~HasDuplicateRows(disk)

\* C1 (amended): import_from_db never stores a row whose fingerprint is
\* that of another stored row, neither in its transaction nor on disk;
\* only insert_history, which stores its row unconditionally, can add a
\* second row with a fingerprint that is already there.
C1_ImportAddsNoDuplicateRow ==
    [][ pc # "idle" => AddsNoDuplicate(work, work') /\ AddsNoDuplicate(disk, disk') ]_vars

\* an import merged a row into a store in which insert_history had stored
\* the same event twice
C1_Witness ==
    /\ result.op = "import" /\ result.ok /\ result.inserted >= 1
    /\ HasDuplicateRows(disk)

\* the smallest id among the history rows of db with fingerprint h
FirstIdWithHash(db, h) ==
    LET ids == { db.history[i].id : i \in RowsWithHash(db, h) }
    IN  CHOOSE m \in ids : \A n \in ids : m <= n

\* history_hash has one entry per fingerprint, and each entry points to
\* the first row that has the fingerprint
HashTableWellFormed(db) ==
    /\ \A e1, e2 \in db.history_hash : e1.hash = e2.hash => e1 = e2
    /\ \A e \in db.history_hash :
          /\ RowsWithHash(db, e.hash) # {}
          /\ e.history_id = FirstIdWithHash(db, e.hash)

\* C2: history_hash holds at most one entry per fingerprint, and an entry,
\* once committed, is never updated or deleted: it keeps the id of the row
\* that first produced the fingerprint, also when later rows with the same
\* fingerprint are inserted.
C2_FingerprintEntriesUniqueAndStable ==
    /\ [](HashTableWellFormed(disk) /\ (intx /\ pc # "idle" => HashTableWellFormed(work)))
    /\ [][ disk.history_hash \subseteq disk'.history_hash ]_vars

\* a fingerprint has two rows and its entry still points to the first
C2_Witness ==
    \E e \in disk.history_hash :
        /\ Cardinality(RowsWithHash(disk, e.hash)) >= 2
        /\ e.history_id = 1

\* C3 (as stated): importing a source of N valid rows into a fresh
\* destination returns (N, N); importing the same unchanged source again
\* returns (N, 0) and leaves history and history_hash as they were.
C3_ImportTwice ==
    [][ (pc = "loop" /\ idx > Len(src.rows) /\ AllValid(src.rows)
         /\ result'.op = "import" /\ result'.ok)
        => /\ pre = EmptyDb
              => result'.considered = Len(src.rows) /\ result'.inserted = Len(src.rows)
           /\ (merged.known /\ merged.rows = src.rows)
              => /\ result'.considered = Len(src.rows)
                 /\ result'.inserted = 0
                 /\ disk' = disk ]_vars

\* C3 (amended): the first import returns (N, D), D being the number of
\* distinct fingerprints among the N rows (D = N when no two source rows
\* share a fingerprint); the second returns (N, 0) and leaves history and
\* history_hash as they were.
C3_ImportTwiceDistinct ==
    [][ (pc = "loop" /\ idx > Len(src.rows) /\ AllValid(src.rows)
         /\ result'.op = "import" /\ result'.ok)
        => /\ pre = EmptyDb
              => /\ result'.considered = Len(src.rows)
                 /\ result'.inserted = Cardinality(SourceHashes(src.rows))
           /\ (merged.known /\ merged.rows = src.rows)
              => /\ result'.considered = Len(src.rows)
                 /\ result'.inserted = 0
                 /\ disk' = disk ]_vars

\* the second import of a two-row source has returned (2, 0)
C3_Witness ==
    /\ result.op = "import" /\ result.ok
    /\ result.considered = 2 /\ result.inserted = 0
    /\ merged.known /\ Len(merged.rows) = 2 /\ AllValid(merged.rows)
    /\ Len(disk.history) = 2

\* the content of a stored row, without its id
Content(r) == HistoryRow(r.hist_id, r.cmd, r.epoch, r.ppid, r.pwd, r.salt)

\* the source row import_from_db is about to process, and its fingerprint
CurrentRaw == QueryRow(src.rows, idx)

AtValidRow ==
    /\ pc = "loop" /\ idx <= Len(src.rows)
    /\ RowReadable(CurrentRaw) /\ NumericOk(CurrentRaw)

\* C4: inserting a row whose fingerprint is already stored succeeds and
\* leaves exactly one fingerprint entry for it (the row itself is stored a
\* second time); an import that then meets a source row with that
\* fingerprint does not insert it and does not count it as inserted.
C4_InsertTwiceThenImport ==
    [][ /\ \A row \in InsertRowPool :
              (InsertHistory(row) /\ HashExists(disk, row_hash(row)))
              => /\ result'.op = "insert" /\ result'.ok
                 /\ result'.id = Len(disk.history) + 1
                 /\ Len(disk'.history) = Len(disk.history) + 1
                 /\ Cardinality({ e \in disk'.history_hash : e.hash = row_hash(row) }) = 1
        /\ (AtValidRow /\ HashExists(pre, row_hash(Coerce(CurrentRaw))) /\ idx' = idx + 1)
              => /\ inserted' = inserted
                 /\ work' = work ]_vars

\* the same row was inserted twice, and an import has passed a source row
\* that is this row without inserting anything
C4_Witness ==
    /\ pc = "loop" /\ idx = 2 /\ inserted = 0
    /\ Len(disk.history) = 2
    /\ Content(disk.history[1]) = Content(disk.history[2])
    /\ Cardinality(disk.history_hash) = 1
    /\ RowReadable(src.rows[1]) /\ NumericOk(src.rows[1])
    /\ Coerce(src.rows[1]) = Content(disk.history[1])

\* d is p with the rows of the source merged in: p's rows and entries
\* are kept, every valid source row has its fingerprint in d, and every
\* row d has beyond p is the conversion of a source row
FullyMerged(p, rows, d) ==
    /\ Len(p.history) <= Len(d.history)
    /\ SubSeq(d.history, 1, Len(p.history)) = p.history
    /\ p.history_hash \subseteq d.history_hash
    /\ \A h \in SourceHashes(rows) : HashExists(d, h)
    /\ \A i \in (Len(p.history) + 1)..Len(d.history) :
          \E k \in 1..Len(rows) :
              /\ RowReadable(rows[k]) /\ NumericOk(rows[k])
              /\ Content(d.history[i]) = Coerce(rows[k])

\* C5: import_from_db is one transaction on the destination, committed
\* once after the last source row.  While the call runs, and after it
\* failed or was interrupted, the file equals its pre-import state; the
\* only step that changes the file is the commit, and it writes the fully
\* merged state.
C5_ImportAtomic ==
    /\ [](pc # "idle" => disk = pre)
    /\ [][ (pc # "idle" \/ intx)
           => \/ disk' = disk
              \/ /\ pc = "loop" /\ idx > Len(src.rows)
                 /\ result'.op = "import" /\ result'.ok
                 /\ disk' = work
                 /\ FullyMerged(pre, src.rows, disk') ]_vars

\* an import failed after it had merged a row: the connection holds the
\* row in its open transaction, the file does not
C5_Witness ==
    /\ result.op = "import" /\ ~result.ok
    /\ intx
    /\ Len(work.history) > Len(disk.history)

\* C6: a source row whose epoch, ppid or salt does not coerce to an
\* integer is skipped and counted as skipped-corrupted, the import goes on
\* with the next row, and nothing is written to the destination for it.
\* (Every step import_from_db takes keeps the transaction open; the step
\* that does not is the interruption of the process.)
C6_CorruptedRowSkipped ==
    [][ (pc = "loop" /\ idx <= Len(src.rows) /\ ~NumericOk(CurrentRaw) /\ intx')
        => /\ pc' = "loop"
           /\ idx' = idx + 1
           /\ considered' = considered + 1
           /\ skipped_bad' = skipped_bad + 1
           /\ inserted' = inserted
           /\ work' = work
           /\ disk' = disk ]_vars

\* C7: import_from_db never returns an error because of the values held
\* by a source row: no call ends with the column conversion error of the
\* row reader.
C7_NoAbortOnRowData ==
    ~(result.op = "import" /\ ~result.ok /\ result.err = "invalid_column_type")

\* C8: with a source that has no history table import_from_db returns the
\* fatal error before any source row is read, and history and
\* history_hash of the destination, on disk and as the connection sees
\* them, are as before the call.
C8_NoHistoryTableIsFatal ==
    /\ [](pc = "check" => idx = 0 /\ considered = 0 /\ disk = pre /\ work = pre)
    /\ [][ (pc = "check" /\ src.kind = "no_history" /\ intx')
           => /\ pc' = "idle"
              /\ result' = ImportErr("no_history_table")
              /\ disk' = disk
              /\ work' = work ]_vars

\* an import into a store that holds rows has failed for want of a
\* history table
C8_Witness ==
    /\ result = ImportErr("no_history_table")
    /\ Len(disk.history) >= 1
    /\ work = disk

\* C9: on a successful import considered is the number of source rows and
\* equals inserted + skipped-corrupted + skipped-as-already-present, and
\* history and history_hash of the destination each grow by exactly
\* inserted rows.
C9_ImportCounters ==
    [][ (pc = "loop" /\ result'.op = "import" /\ result'.ok)
        => /\ result'.considered = Len(src.rows)
           /\ result'.considered = result'.inserted + skipped_bad + skipped_dup
           /\ Len(disk'.history) = Len(pre.history) + result'.inserted
           /\ Cardinality(disk'.history_hash)
                = Cardinality(pre.history_hash) + result'.inserted ]_vars

\* a successful import of two rows inserted one and skipped the other
C9_Witness ==
    /\ result.op = "import" /\ result.ok
    /\ result.considered = 2 /\ result.inserted = 1
    /\ Len(disk.history) >= 2

\* the rows the running import has added to the destination with
\* fingerprint h
AddedWithHash(h) == { i \in RowsWithHash(work, h) : i > Len(pre.history) }

\* C10: source rows are processed in ascending source id; of two
\* different source rows with one fingerprint that the destination did not
\* have, exactly one row is inserted, it is the one with the smaller
\* source id, and the later one is skipped in the same call.
C10_EarliestSourceRowWins ==
    pc = "loop" =>
        \A i, j \in 1..Len(src.rows) :
            ( /\ i < j /\ j < idx
              /\ RowReadable(src.rows[i]) /\ NumericOk(src.rows[i])
              /\ RowReadable(src.rows[j]) /\ NumericOk(src.rows[j])
              /\ row_hash(Coerce(src.rows[i])) = row_hash(Coerce(src.rows[j]))
              /\ ~HashExists(pre, row_hash(Coerce(src.rows[i])))
              /\ \A k \in 1..(i - 1) :
                    (RowReadable(src.rows[k]) /\ NumericOk(src.rows[k]))
                    => row_hash(Coerce(src.rows[k])) # row_hash(Coerce(src.rows[i])) )
            => /\ Cardinality(AddedWithHash(row_hash(Coerce(src.rows[i])))) = 1
               /\ \A n \in AddedWithHash(row_hash(Coerce(src.rows[i]))) :
                      Content(work.history[n]) = Coerce(src.rows[i])
               /\ skipped_dup >= 1
               /\ inserted + skipped_bad + skipped_dup = idx - 1

\* both rows of a source were processed; they differ in pwd and cmd, have
\* one fingerprint, and the first was inserted
C10_Witness ==
    /\ pc = "loop" /\ idx = 3 /\ inserted = 1 /\ skipped_dup = 1
    /\ AllValid(src.rows)
    /\ Coerce(src.rows[1]) # Coerce(src.rows[2])
    /\ row_hash(Coerce(src.rows[1])) = row_hash(Coerce(src.rows[2]))
    /\ Content(work.history[Len(work.history)]) = Coerce(src.rows[1])

\* ================================================================ row_hash
\* The fingerprint as a function of the row: two rows are drawn and
\* row_hash is applied to both.
HashTexts == { <<>>, <<"a">>, <<"\n">>, <<"a", "\n", "b">> }

HashRows ==
    { HistoryRow(h, c, e, pp, pw, sa) :
        h \in {None, Some(0)}, c \in HashTexts, e \in {5, 57}, pp \in {7, 75},
        pw \in HashTexts, sa \in {9, -9} }

\* no store operation has run
StoreIdle ==
    /\ disk = EmptyDb /\ work = EmptyDb /\ intx = FALSE /\ pc = "idle"
    /\ src = NoSource /\ idx = 0 /\ considered = 0 /\ inserted = 0
    /\ skipped_bad = 0 /\ skipped_dup = 0 /\ pre = EmptyDb
    /\ result = NoResult /\ merged = NotMerged

InitHash ==
    /\ StoreIdle
    /\ call \in { [fn |-> "row_hash", a |-> a, b |-> b] : a \in HashRows, b \in HashRows }
    /\ ret = NoCall

ApplyRowHash ==
    /\ call.fn = "row_hash"
    /\ ret = NoCall
    /\ ret' = [fn |-> "row_hash", a |-> row_hash(call.a), b |-> row_hash(call.b)]
    /\ UNCHANGED <<store, call>>

NextHash == ApplyRowHash

SpecHash == InitHash /\ [][NextHash]_vars

\* the fields in which two rows differ
DiffFields(a, b) ==
    { f \in {"epoch", "ppid", "salt", "hist_id", "pwd", "cmd"} : a[f] # b[f] }

\* C11: rows with identical field values have identical fingerprints, and
\* for rows that differ in exactly one of epoch, ppid, salt, hist_id
\* (present or absent included), pwd, cmd the bytes fed to the hash differ,
\* so the fingerprints differ.
C11_FingerprintDeterminism ==
    ret.fn = "row_hash" =>
        /\ call.a = call.b => ret.a = ret.b
        /\ Cardinality(DiffFields(call.a, call.b)) = 1
              => HashInput(call.a) # HashInput(call.b) /\ ret.a # ret.b

\* two rows that differ only in that one has hist_id 0 and the other has
\* none were hashed
C11_Witness ==
    /\ ret.fn = "row_hash"
    /\ DiffFields(call.a, call.b) = {"hist_id"}
    /\ ~call.a.hist_id.some /\ call.b.hist_id = Some(0)
    /\ ret.a # ret.b

\* C12: any two rows that differ in at least one field have different
\* fingerprints: the newline-separated encoding is injective, also for pwd
\* and cmd values that contain newlines.
C12_EncodingInjective ==
    ret.fn = "row_hash" => (call.a # call.b => ret.a # ret.b)

\* ============================================================ value_to_i64
\* The numeric coercion as a function of the column value.
CoerceMaxLen == 4

CoerceAlphabet == {"5", "*", " ", "-", "a"}

CoerceTexts == UNION { [1..n -> CoerceAlphabet] : n \in 0..CoerceMaxLen }

CoerceValues ==
    {Null, Blob} \cup { Integer(i) : i \in {-5, 0, 7} }
    \cup { Real(w, t) : w \in {-5, 0, 5}, t \in {0, 5} }
    \cup { Text(s) : s \in CoerceTexts }

InitCoerce ==
    /\ StoreIdle
    /\ call \in { [fn |-> "value_to_i64", v |-> v] : v \in CoerceValues }
    /\ ret = NoCall

ApplyValueToI64 ==
    /\ call.fn = "value_to_i64"
    /\ ret = NoCall
    /\ ret' = [fn |-> "value_to_i64", r |-> value_to_i64(call.v)]
    /\ UNCHANGED <<store, call>>

NextCoerce == ApplyValueToI64

SpecCoerce == InitCoerce /\ [][NextCoerce]_vars

\* The stated rule, written from its wording.  The tokens of a text are its
\* maximal runs of non-whitespace characters.
TokenStarts(s) ==
    { i \in 1..Len(s) : ~IsWhitespace(s[i]) /\ (i = 1 \/ IsWhitespace(s[i - 1])) }

\* where the token that starts at i ends
TokenEnd(s, i) ==
    CHOOSE j \in i..Len(s) :
        /\ \A k \in i..j : ~IsWhitespace(s[k])
        /\ j = Len(s) \/ IsWhitespace(s[j + 1])

\* the n-th token, or the empty text when there are fewer
NthToken(s, n) ==
    LET starts == TokenStarts(s)
        nth == { i \in starts : Cardinality({ k \in starts : k < i }) = n - 1 }
    IN  IF nth = {} THEN <<>>
        ELSE LET i == CHOOSE i \in nth : TRUE IN SubSeq(s, i, TokenEnd(s, i))

\* a token without one trailing '*'
TrimOneStar(tok) ==
    IF tok # <<>> /\ tok[Len(tok)] = "*" THEN SubSeq(tok, 1, Len(tok) - 1) ELSE tok

\* a token without its trailing '*' characters
TrimAllStars(tok) ==
    IF \A i \in 1..Len(tok) : tok[i] = "*" THEN <<>>
    ELSE LET last == CHOOSE i \in 1..Len(tok) :
                        tok[i] # "*" /\ \A k \in (i + 1)..Len(tok) : tok[k] = "*"
         IN  SubSeq(tok, 1, last)

\* the rule with one trailing '*' trimmed from a token
RuleOneStar(v) ==
    CASE v.t = "Integer" -> Some(v.i)
      [] v.t = "Real" -> IF v.tenths = 0 THEN Some(v.whole) ELSE None
      [] v.t = "Text" ->
            LET first == ParseI64(TrimOneStar(NthToken(v.s, 1)))
                second == ParseI64(TrimOneStar(NthToken(v.s, 2)))
            IN  IF first.some THEN first ELSE second
      [] OTHER -> None

\* the rule with every trailing '*' trimmed from a token
RuleAllStars(v) ==
    CASE v.t = "Integer" -> Some(v.i)
      [] v.t = "Real" -> IF v.tenths = 0 THEN Some(v.whole) ELSE None
      [] v.t = "Text" ->
            LET first == ParseI64(TrimAllStars(NthToken(v.s, 1)))
                second == ParseI64(TrimAllStars(NthToken(v.s, 2)))
            IN  IF first.some THEN first ELSE second
      [] OTHER -> None

\* C13: value_to_i64 follows the stated rule for every input: an integer as
\* is; a real with zero fractional part; for text the integer parsed from
\* the first whitespace-separated token after trimming one trailing '*' if
\* present, else from the second token in the same way, else unparseable;
\* NULL, blobs, empty text and reals with a fractional part unparseable.
C13_CoercionRule ==
    ret.fn = "value_to_i64" => ret.r = RuleOneStar(call.v)

\* C13 as the code has it: every trailing '*' of a token is trimmed before
\* it is parsed.
C13_CoercionRuleAllStars ==
    ret.fn = "value_to_i64" => ret.r = RuleAllStars(call.v)

\* the text "a* 5" was coerced: its first token does not parse and the
\* second gives 5
C13_Witness ==
    /\ ret.fn = "value_to_i64"
    /\ call.v = Text(<<"a", "*", " ", "5">>)
    /\ ret.r = Some(5)

\* ============================================================= escape_like
\* str::replace(from, to) for a one-character from
RECURSIVE Replace(_, _, _)
Replace(s, from, to) ==
    IF s = <<>> THEN <<>>
    ELSE (IF Head(s) = from THEN to ELSE <<Head(s)>>) \o Replace(Tail(s), from, to)

\* faulty variant: '_' is left unescaped
escape_likeNoUnderscore(s) ==
    Replace(Replace(s, "\\", <<"\\", "\\">>), "%", <<"\\", "%">>)

escape_like(s) ==
    Replace(Replace(Replace(s, "\\", <<"\\", "\\">>), "%", <<"\\", "%">>),
            "_", <<"\\", "_">>)

\* SQLite's LIKE folds the case of ASCII letters
UpperCase == <<"A", "B", "C", "D", "E", "F", "G", "H", "I", "J", "K", "L", "M",
               "N", "O", "P", "Q", "R", "S", "T", "U", "V", "W", "X", "Y", "Z">>

LowerCase == <<"a", "b", "c", "d", "e", "f", "g", "h", "i", "j", "k", "l", "m",
               "n", "o", "p", "q", "r", "s", "t", "u", "v", "w", "x", "y", "z">>

ToLower(c) ==
    IF \E i \in 1..Len(UpperCase) : UpperCase[i] = c
    THEN LowerCase[CHOOSE i \in 1..Len(UpperCase) : UpperCase[i] = c]
    ELSE c

EqNoCase(c, d) == ToLower(c) = ToLower(d)

\* text LIKE pattern ESCAPE '\': '%' stands for any run of characters, '_'
\* for one character, the character after the escape character for itself
\* (a pattern that ends in the escape character matches nothing), any other
\* character for itself up to ASCII case
RECURSIVE LikeMatch(_, _)
LikeMatch(pattern, text) ==
    IF pattern = <<>> THEN text = <<>>
    ELSE IF Head(pattern) = "%"
         THEN \E k \in 0..Len(text) :
                  LikeMatch(Tail(pattern), SubSeq(text, k + 1, Len(text)))
    ELSE IF Head(pattern) = "_"
         THEN text # <<>> /\ LikeMatch(Tail(pattern), Tail(text))
    ELSE IF Head(pattern) = "\\"
         THEN /\ Len(pattern) >= 2
              /\ text # <<>>
              /\ EqNoCase(pattern[2], Head(text))
              /\ LikeMatch(SubSeq(pattern, 3, Len(pattern)), Tail(text))
    ELSE /\ text # <<>>
         /\ EqNoCase(Head(pattern), Head(text))
         /\ LikeMatch(Tail(pattern), Tail(text))

\* A string is escaped and the pattern is matched against every text.
LikeMaxLen == 3

LikeAlphabet == {"%", "_", "\\", "a", "X"}

LikeTexts == UNION { [1..n -> LikeAlphabet] : n \in 0..LikeMaxLen }

InitLike ==
    /\ StoreIdle
    /\ call \in { [fn |-> "escape_like", s |-> s] : s \in LikeTexts }
    /\ ret = NoCall

ApplyEscapeLike ==
    /\ call.fn = "escape_like"
    /\ ret = NoCall
    /\ LET pattern == escape_like(call.s) IN
       ret' = [fn |-> "escape_like", pattern |-> pattern,
               matched |-> { t \in LikeTexts : LikeMatch(pattern, t) }]
    /\ UNCHANGED <<store, call>>

NextLike == ApplyEscapeLike

SpecLike == InitLike /\ [][NextLike]_vars

\* the texts that differ from s by other characters where s has '%' or '_'
WildcardSubstitutions(s) ==
    { t \in LikeTexts :
        /\ Len(t) = Len(s)
        /\ t # s
        /\ \A i \in 1..Len(s) : t[i] # s[i] => s[i] \in {"%", "_"} }

\* C14: for every string s the pattern escape_like(s), used with ESCAPE
\* '\', matches the text s itself and matches no text that differs from s
\* by other characters substituted where s has '%' or '_'.
C14_EscapeLikeRoundTrip ==
    ret.fn = "escape_like" =>
        /\ call.s \in ret.matched
        /\ ret.matched \cap WildcardSubstitutions(call.s) = {}

\* the string %_\ was escaped to \%\_\\ ; the pattern matches %_\ and
\* does not match XX\
C14_Witness ==
    /\ ret.fn = "escape_like"
    /\ call.s = <<"%", "_", "\\">>
    /\ ret.pattern = <<"\\", "%", "\\", "_", "\\", "\\">>
    /\ call.s \in ret.matched
    /\ <<"X", "X", "\\">> \notin ret.matched

\* ========================================================== query builders
\* The SQL text is kept as the sequence of its pieces, every positional
\* placeholder a piece "?" of its own; the text is their concatenation.
\* The environment of a command is a record [SDBH_SALT, SDBH_PPID, cwd,
\* now]: the two variables (absent or a text), the current directory
\* (absent when it cannot be read) and the clock in seconds.

\* u32::MAX.to_string()
U32MaxText == <<"4", "2", "9", "4", "9", "6", "7", "2", "9", "5">>

\* faulty variant: a missing or non-integer SDBH_PPID counts as 0
session_filterPpidOrZero(session_only, env) ==
    IF session_only
    THEN IF ~env.SDBH_SALT.some THEN None
         ELSE LET salt == ParseI64(env.SDBH_SALT.v) IN
              IF ~salt.some THEN None
              ELSE LET ppid == IF env.SDBH_PPID.some THEN ParseI64(env.SDBH_PPID.v)
                               ELSE None
                   IN  Some([salt |-> salt.v, ppid |-> IF ppid.some THEN ppid.v ELSE 0])
    ELSE None

session_filter(session_only, env) ==
    IF session_only
    THEN IF ~env.SDBH_SALT.some THEN None
         ELSE LET salt == ParseI64(env.SDBH_SALT.v) IN
              IF ~salt.some THEN None
              ELSE IF ~env.SDBH_PPID.some THEN None
              ELSE LET ppid == ParseI64(env.SDBH_PPID.v) IN
                   IF ~ppid.some THEN None
                   ELSE Some([salt |-> salt.v, ppid |-> ppid.v])
    ELSE None

location_filter(here, under, pwd_override, env) ==
    IF ~(here \/ under) THEN None
    ELSE LET pwd == IF pwd_override.some THEN pwd_override ELSE env.cwd IN
         IF ~pwd.some THEN None
         ELSE Some([pwd |-> pwd.v, under |-> under])

\* faulty variant: a day of 3600 seconds
days_cutoff_epochHours(days, env) == env.now - days * 3600

days_cutoff_epoch(days, env) == env.now - days * 86400

\* sql.push_str(..) followed by the bind.push(..) that go with it
Push(q, sql, bind) == [sql |-> q.sql \o sql, bind |-> q.bind \o bind]

\* if let Some((salt, ppid)) = session_filter(..) { .. }
PushSession(q, sf) ==
    IF sf.some
    THEN Push(q, <<"AND salt=", "?", " AND ppid=", "?", " ">>,
              <<to_string(sf.v.salt), to_string(sf.v.ppid)>>)
    ELSE q

\* if let Some((pwd, under)) = location_filter(..) { .. }
PushLocation(q, lf) ==
    IF ~lf.some THEN q
    ELSE IF lf.v.under
         THEN Push(q, <<"AND pwd LIKE ", "?", " ESCAPE '\\' ">>,
                   <<escape_like(lf.v.pwd) \o <<"%">> >>)
    ELSE Push(q, <<"AND pwd = ", "?", " ">>, <<lf.v.pwd>>)

\* faulty variant: the 'all' flag is not looked at
LimitTextIgnoresAll(args) == to_string(args.limit)

\* let limit = if args.all { u32::MAX } else { args.limit }; limit.to_string()
LimitText(args) == IF args.all THEN U32MaxText ELSE to_string(args.limit)

\* faulty variant: the pwd flag adds the column and not the grouping
build_summary_sqlGroupByCmdOnly(args, env) ==
    LET select == <<"SELECT max(id) as mid, datetime(max(epoch), 'unixepoch', 'localtime') as dt, count(*) as cnt, cmd">>
                  \o (IF args.pwd THEN <<", pwd">> ELSE <<>>)
        q0 == [sql |-> select \o <<" FROM history WHERE 1=1 ">>, bind |-> <<>>]
        q1 == PushSession(q0, session_filter(args.session, env))
        q2 == IF args.query.some
              THEN LET like == IF args.starts THEN args.query.v \o <<"%">>
                               ELSE <<"%">> \o args.query.v \o <<"%">>
                   IN  Push(q1, <<"AND cmd LIKE ", "?", " ESCAPE '\\' ">>,
                            <<escape_like(like)>>)
              ELSE q1
        q3 == PushLocation(q2, location_filter(args.here, args.under,
                                               args.pwd_override, env))
        q4 == Push(q3, <<"GROUP BY cmd ">>, <<>>)
        q5 == q4
        q6 == Push(q5, <<"ORDER BY max(id) DESC ">>, <<>>)
    IN  Push(q6, <<"LIMIT ", "?">>, <<LimitText(args)>>)

build_summary_sql(args, env) ==
    LET select == <<"SELECT max(id) as mid, datetime(max(epoch), 'unixepoch', 'localtime') as dt, count(*) as cnt, cmd">>
                  \o (IF args.pwd THEN <<", pwd">> ELSE <<>>)
        q0 == [sql |-> select \o <<" FROM history WHERE 1=1 ">>, bind |-> <<>>]
        q1 == PushSession(q0, session_filter(args.session, env))
        q2 == IF args.query.some
              THEN LET like == IF args.starts THEN args.query.v \o <<"%">>
                               ELSE <<"%">> \o args.query.v \o <<"%">>
                   IN  Push(q1, <<"AND cmd LIKE ", "?", " ESCAPE '\\' ">>,
                            <<escape_like(like)>>)
              ELSE q1
        q3 == PushLocation(q2, location_filter(args.here, args.under,
                                               args.pwd_override, env))
        q4 == Push(q3, <<"GROUP BY cmd ">>, <<>>)
        q5 == IF args.pwd THEN Push(q4, <<", pwd ">>, <<>>) ELSE q4
        q6 == Push(q5, <<"ORDER BY max(id) DESC ">>, <<>>)
    IN  Push(q6, <<"LIMIT ", "?">>, <<LimitText(args)>>)

\* faulty variant: the query is written into the SQL text
build_list_sqlInterpolated(args, env) ==
    LET q0 == [sql |-> <<"SELECT id, datetime(epoch, 'unixepoch', 'localtime') as dt, pwd, cmd, epoch FROM history WHERE 1=1 ">>,
               bind |-> <<>>]
        q1 == PushSession(q0, session_filter(args.session, env))
        q2 == IF args.query.some
              THEN Push(q1, <<"AND cmd LIKE '%">> \o args.query.v \o <<"%' ">>, <<>>)
              ELSE q1
        q3 == PushLocation(q2, location_filter(args.here, args.under,
                                               args.pwd_override, env))
        q4 == Push(q3, <<"ORDER BY epoch ASC, id ASC ">>, <<>>)
    IN  Push(q4, <<"LIMIT ", "?", " OFFSET ", "?">>,
             <<LimitText(args), to_string(args.offset)>>)

build_list_sql(args, env) ==
    LET q0 == [sql |-> <<"SELECT id, datetime(epoch, 'unixepoch', 'localtime') as dt, pwd, cmd, epoch FROM history WHERE 1=1 ">>,
               bind |-> <<>>]
        q1 == PushSession(q0, session_filter(args.session, env))
        q2 == IF args.query.some
              THEN Push(q1, <<"AND cmd LIKE ", "?", " ESCAPE '\\' ">>,
                        <<escape_like(<<"%">> \o args.query.v \o <<"%">>)>>)
              ELSE q1
        q3 == PushLocation(q2, location_filter(args.here, args.under,
                                               args.pwd_override, env))
        q4 == Push(q3, <<"ORDER BY epoch ASC, id ASC ">>, <<>>)
    IN  Push(q4, <<"LIMIT ", "?", " OFFSET ", "?">>,
             <<LimitText(args), to_string(args.offset)>>)

\* faulty variant: the query is not escaped
build_search_sqlUnescaped(args, env) ==
    LET q0 == [sql |-> <<"SELECT id, datetime(epoch, 'unixepoch', 'localtime') as dt, pwd, cmd, epoch FROM history WHERE 1=1 ">>,
               bind |-> <<>>]
        q1 == IF args.since_epoch.some
              THEN Push(q0, <<"AND epoch >= ", "?", " ">>,
                        <<to_string(args.since_epoch.v)>>)
              ELSE IF args.days.some
                   THEN Push(q0, <<"AND epoch >= ", "?", " ">>,
                             <<to_string(days_cutoff_epoch(args.days.v, env))>>)
              ELSE q0
        q2 == PushSession(q1, session_filter(args.session, env))
        q3 == Push(q2, <<"AND cmd LIKE ", "?", " ESCAPE '\\' ">>,
                   <<(<<"%">> \o args.query \o <<"%">>)>>)
        q4 == PushLocation(q3, location_filter(args.here, args.under,
                                               args.pwd_override, env))
        q5 == Push(q4, <<"ORDER BY epoch DESC, id DESC ">>, <<>>)
    IN  Push(q5, <<"LIMIT ", "?">>, <<LimitText(args)>>)

\* faulty variant: oldest first
build_search_sqlAscending(args, env) ==
    LET q0 == [sql |-> <<"SELECT id, datetime(epoch, 'unixepoch', 'localtime') as dt, pwd, cmd, epoch FROM history WHERE 1=1 ">>,
               bind |-> <<>>]
        q1 == IF args.since_epoch.some
              THEN Push(q0, <<"AND epoch >= ", "?", " ">>,
                        <<to_string(args.since_epoch.v)>>)
              ELSE IF args.days.some
                   THEN Push(q0, <<"AND epoch >= ", "?", " ">>,
                             <<to_string(days_cutoff_epoch(args.days.v, env))>>)
              ELSE q0
        q2 == PushSession(q1, session_filter(args.session, env))
        q3 == Push(q2, <<"AND cmd LIKE ", "?", " ESCAPE '\\' ">>,
                   <<(<<"%">> \o escape_like(args.query) \o <<"%">>)>>)
        q4 == PushLocation(q3, location_filter(args.here, args.under,
                                               args.pwd_override, env))
        q5 == Push(q4, <<"ORDER BY epoch ASC, id ASC ">>, <<>>)
    IN  Push(q5, <<"LIMIT ", "?">>, <<LimitText(args)>>)

build_search_sql(args, env) ==
    LET q0 == [sql |-> <<"SELECT id, datetime(epoch, 'unixepoch', 'localtime') as dt, pwd, cmd, epoch FROM history WHERE 1=1 ">>,
               bind |-> <<>>]
        q1 == IF args.since_epoch.some
              THEN Push(q0, <<"AND epoch >= ", "?", " ">>,
                        <<to_string(args.since_epoch.v)>>)
              ELSE IF args.days.some
                   THEN Push(q0, <<"AND epoch >= ", "?", " ">>,
                             <<to_string(days_cutoff_epoch(args.days.v, env))>>)
              ELSE q0
        q2 == PushSession(q1, session_filter(args.session, env))
        q3 == Push(q2, <<"AND cmd LIKE ", "?", " ESCAPE '\\' ">>,
                   <<(<<"%">> \o escape_like(args.query) \o <<"%">>)>>)
        q4 == PushLocation(q3, location_filter(args.here, args.under,
                                               args.pwd_override, env))
        q5 == Push(q4, <<"ORDER BY epoch DESC, id DESC ">>, <<>>)
    IN  Push(q5, <<"LIMIT ", "?">>, <<LimitText(args)>>)

\* the statement cmd_export builds
build_export_sql(args, env) ==
    LET q0 == [sql |-> <<"SELECT id, hist_id, cmd, epoch, ppid, pwd, salt FROM history WHERE 1=1 ">>,
               bind |-> <<>>]
        q1 == PushSession(q0, session_filter(args.session, env))
    IN  Push(q1, <<"ORDER BY epoch ASC, id ASC">>, <<>>)

build_stats_top_sql(args, env) ==
    LET q0 == [sql |-> <<"SELECT count(*) as cnt, cmd FROM history WHERE 1=1 ">>,
               bind |-> <<>>]
        q1 == PushSession(q0, session_filter(args.session, env))
        q2 == Push(q1, <<"AND epoch >= ", "?", " ">>,
                   <<to_string(days_cutoff_epoch(args.days, env))>>)
    IN  Push(q2, <<"GROUP BY cmd ORDER BY cnt DESC, max(epoch) DESC LIMIT ", "?">>,
             <<LimitText(args)>>)

build_stats_by_pwd_sql(args, env) ==
    LET q0 == [sql |-> <<"SELECT count(*) as cnt, pwd, cmd FROM history WHERE 1=1 ">>,
               bind |-> <<>>]
        q1 == PushSession(q0, session_filter(args.session, env))
        q2 == Push(q1, <<"AND epoch >= ", "?", " ">>,
                   <<to_string(days_cutoff_epoch(args.days, env))>>)
    IN  Push(q2, <<"GROUP BY pwd, cmd ORDER BY cnt DESC, max(epoch) DESC LIMIT ", "?">>,
             <<LimitText(args)>>)

build_stats_daily_sql(args, env) ==
    LET q0 == [sql |-> <<"SELECT date(epoch, 'unixepoch', 'localtime') as day, count(*) as cnt FROM history WHERE 1=1 ">>,
               bind |-> <<>>]
        q1 == PushSession(q0, session_filter(args.session, env))
        q2 == Push(q1, <<"AND epoch >= ", "?", " ">>,
                   <<to_string(days_cutoff_epoch(args.days, env))>>)
    IN  Push(q2, <<"GROUP BY day ORDER BY day ASC">>, <<>>)

\* -------------------------------------------------- the builders' inputs
\* the clock: 00:00:57 on the second day of the epoch
Now == 86457

BuildEnvs ==
    { [SDBH_SALT |-> sa, SDBH_PPID |-> pp, cwd |-> cw, now |-> Now] :
        sa \in {NoText, Some(<<"9">>), Some(<<"8">>), Some(<<"x">>)},
        pp \in {NoText, Some(<<"7">>), Some(<<"x">>)},
        cw \in {NoText, Some(root)} }

BuildQueries == { <<"a">>, <<"%">> }

BuildDirs == { <<"/", "a">>, <<"/", "_">> }

\* an optional text
OptionOf(S) == {NoText} \cup { Some(x) : x \in S }

\* --here and --under exclude each other
HereUnder == { <<FALSE, FALSE>>, <<TRUE, FALSE>>, <<FALSE, TRUE>> }

ListArgs ==
    { [query |-> q, limit |-> l, offset |-> o, all |-> a, session |-> s,
       pwd_override |-> d, here |-> hu[1], under |-> hu[2]] :
        q \in OptionOf(BuildQueries), l \in {1, 100}, o \in {0, 1},
        a \in BOOLEAN, s \in BOOLEAN, d \in OptionOf(BuildDirs), hu \in HereUnder }

\* --since-epoch and --days exclude each other
SinceDays ==
    { <<None, None>> } \cup { <<Some(e), None>> : e \in {5, 57} }
    \cup { <<None, Some(n)>> : n \in {0, 1} }

SearchArgs ==
    { [query |-> q, limit |-> l, all |-> a, session |-> s,
       since_epoch |-> sd[1], days |-> sd[2],
       pwd_override |-> d, here |-> hu[1], under |-> hu[2]] :
        q \in BuildQueries, l \in {1, 100}, a \in BOOLEAN, s \in BOOLEAN,
        sd \in SinceDays, d \in OptionOf(BuildDirs), hu \in HereUnder }

SummaryArgs ==
    { [query |-> q, limit |-> l, starts |-> st, all |-> a, session |-> s,
       pwd |-> p, pwd_override |-> d, here |-> hu[1], under |-> hu[2]] :
        q \in OptionOf(BuildQueries), l \in {1, 100}, st \in BOOLEAN,
        a \in BOOLEAN, s \in BOOLEAN, p \in BOOLEAN,
        d \in OptionOf(BuildDirs), hu \in HereUnder }

\* StatsTopArgs and StatsByPwdArgs
StatsArgs ==
    { [days |-> n, limit |-> l, all |-> a, session |-> s] :
        n \in {0, 1}, l \in {1, 50}, a \in BOOLEAN, s \in BOOLEAN }

StatsDailyArgs ==
    { [days |-> n, all |-> a, session |-> s] :
        n \in {0, 1}, a \in BOOLEAN, s \in BOOLEAN }

BuildCall(fn, Args) ==
    { [fn |-> fn, args |-> a, env |-> e] : a \in Args, e \in BuildEnvs }

InitBuild ==
    /\ StoreIdle
    /\ call \in BuildCall("build_list_sql", ListArgs)
                \cup BuildCall("build_search_sql", SearchArgs)
                \cup BuildCall("build_summary_sql", SummaryArgs)
                \cup BuildCall("build_stats_top_sql", StatsArgs)
                \cup BuildCall("build_stats_by_pwd_sql", StatsArgs)
                \cup BuildCall("build_stats_daily_sql", StatsDailyArgs)
    /\ ret = NoCall

\* a builder returns Ok((sql, bind))
Built(q) ==
    /\ ret = NoCall
    /\ ret' = [fn |-> call.fn, sql |-> q.sql, bind |-> q.bind]
    /\ UNCHANGED <<store, call>>

BuildList ==
    /\ call.fn = "build_list_sql"
    /\ Built(build_list_sql(call.args, call.env))

BuildSearch ==
    /\ call.fn = "build_search_sql"
    /\ Built(build_search_sql(call.args, call.env))

BuildSummary ==
    /\ call.fn = "build_summary_sql"
    /\ Built(build_summary_sql(call.args, call.env))

BuildStatsTop ==
    /\ call.fn = "build_stats_top_sql"
    /\ Built(build_stats_top_sql(call.args, call.env))

BuildStatsByPwd ==
    /\ call.fn = "build_stats_by_pwd_sql"
    /\ Built(build_stats_by_pwd_sql(call.args, call.env))

BuildStatsDaily ==
    /\ call.fn = "build_stats_daily_sql"
    /\ Built(build_stats_daily_sql(call.args, call.env))

NextBuild ==
    \/ BuildList
    \/ BuildSearch
    \/ BuildSummary
    \/ BuildStatsTop
    \/ BuildStatsByPwd
    \/ BuildStatsDaily

SpecBuild == InitBuild /\ [][NextBuild]_vars

\* the builder a call names, applied to arguments and an environment
Build(fn, args, env) ==
    CASE fn = "build_list_sql" -> build_list_sql(args, env)
      [] fn = "build_search_sql" -> build_search_sql(args, env)
      [] fn = "build_summary_sql" -> build_summary_sql(args, env)
      [] fn = "build_stats_top_sql" -> build_stats_top_sql(args, env)
      [] fn = "build_stats_by_pwd_sql" -> build_stats_by_pwd_sql(args, env)
      [] fn = "build_stats_daily_sql" -> build_stats_daily_sql(args, env)

\* an optional value with its content replaced by x when it is present
WithValue(opt, x) == [some |-> opt.some, v |-> x]

\* The arguments with the same flags and the same options present, every
\* user-supplied value replaced by a fixed one.
SameOptionsArgs(fn, args) ==
    CASE fn = "build_list_sql" ->
            [args EXCEPT !.query = WithValue(@, <<>>), !.limit = 0, !.offset = 0,
                         !.pwd_override = WithValue(@, <<>>)]
      [] fn = "build_search_sql" ->
            [args EXCEPT !.query = <<>>, !.limit = 0,
                         !.since_epoch = WithValue(@, 0), !.days = WithValue(@, 0),
                         !.pwd_override = WithValue(@, <<>>)]
      [] fn = "build_summary_sql" ->
            [args EXCEPT !.query = WithValue(@, <<>>), !.limit = 0,
                         !.pwd_override = WithValue(@, <<>>)]
      [] fn \in {"build_stats_top_sql", "build_stats_by_pwd_sql"} ->
            [args EXCEPT !.days = 0, !.limit = 0]
      [] fn = "build_stats_daily_sql" -> [args EXCEPT !.days = 0]

\* The environment with the same things present (a session id pair, a
\* current directory), their values replaced by fixed ones.
SameOptionsEnv(args, env) ==
    LET ids == IF session_filter(TRUE, env).some THEN Some(<<"0">>) ELSE NoText IN
    [SDBH_SALT |-> ids, SDBH_PPID |-> ids, cwd |-> WithValue(env.cwd, <<>>), now |-> 0]

NumPlaceholders(sql) == Cardinality({ i \in 1..Len(sql) : sql[i] = "?" })

\* the position of the k-th placeholder in the text
Placeholder(sql, k) ==
    CHOOSE i \in 1..Len(sql) :
        /\ sql[i] = "?"
        /\ Cardinality({ j \in 1..(i - 1) : sql[j] = "?" }) = k - 1

\* the query string of a call that has one
QueryOf(c) == IF c.fn = "build_search_sql" THEN c.args.query ELSE c.args.query.v

\* the values a placeholder may carry, told by the text in front of it
ValuesFor(before, c) ==
    CASE before = "AND salt=" -> { to_string(ParseI64(c.env.SDBH_SALT.v).v) }
      [] before = " AND ppid=" -> { to_string(ParseI64(c.env.SDBH_PPID.v).v) }
      [] before = "AND cmd LIKE " ->
            \* a pattern made of the query string
            { <<"%">> \o escape_like(QueryOf(c)) \o <<"%">>,
              escape_like(<<"%">> \o QueryOf(c) \o <<"%">>),
              escape_like(QueryOf(c)) \o <<"%">>,
              escape_like(QueryOf(c) \o <<"%">>) }
      [] before = "AND pwd LIKE " ->
            { escape_like(location_filter(c.args.here, c.args.under,
                                          c.args.pwd_override, c.env).v.pwd) \o <<"%">> }
      [] before = "AND pwd = " ->
            { location_filter(c.args.here, c.args.under,
                              c.args.pwd_override, c.env).v.pwd }
      [] before = "AND epoch >= " ->
            IF c.fn = "build_search_sql"
            THEN (IF c.args.since_epoch.some THEN { to_string(c.args.since_epoch.v) }
                  ELSE { to_string(c.env.now - c.args.days.v * 86400) })
            ELSE { to_string(c.env.now - c.args.days * 86400) }
      [] before \in {"LIMIT ",
                     "GROUP BY cmd ORDER BY cnt DESC, max(epoch) DESC LIMIT ",
                     "GROUP BY pwd, cmd ORDER BY cnt DESC, max(epoch) DESC LIMIT "} ->
            { IF c.args.all THEN U32MaxText ELSE to_string(c.args.limit) }
      [] before = " OFFSET " -> { to_string(c.args.offset) }
      [] OTHER -> {}

IsBuilder(fn) ==
    fn \in {"build_list_sql", "build_search_sql", "build_summary_sql",
            "build_stats_top_sql", "build_stats_by_pwd_sql", "build_stats_daily_sql"}

\* C15: in every query builder the SQL text depends only on which options
\* are present (flags, Some or None, a session id pair or none), never on
\* the values of query, pwd override, limit, offset, since-epoch, days or
\* the session ids: it is the text built for the same options with other
\* values; it has exactly as many '?' placeholders as there are bind
\* values; and the k-th bind value is the value of the k-th placeholder.
C15_SqlTextIndependentOfValues ==
    IsBuilder(ret.fn) =>
        /\ ret.sql = Build(call.fn, SameOptionsArgs(call.fn, call.args),
                           SameOptionsEnv(call.args, call.env)).sql
        /\ NumPlaceholders(ret.sql) = Len(ret.bind)
        /\ \A k \in 1..Len(ret.bind) :
               /\ Placeholder(ret.sql, k) > 1
               /\ ret.bind[k] \in ValuesFor(ret.sql[Placeholder(ret.sql, k) - 1], call)

\* list was built with a session id pair, the query "%" and --under "/_":
\* six bind values for six placeholders
C15_Witness ==
    /\ ret.fn = "build_list_sql"
    /\ call.args.query = Some(<<"%">>)
    /\ call.args.under /\ call.args.pwd_override = Some(<<"/", "_">>)
    /\ ret.bind[1] = <<"9">> /\ ret.bind[2] = <<"7">>
    /\ Len(ret.bind) = 6 /\ NumPlaceholders(ret.sql) = 6

\* ======================================================== running a query
\* conn.prepare(&sql) and stmt.query(params_from_iter(bind.iter())) on the
\* history table.  Every bind value is a text; salt, ppid and epoch have
\* INTEGER affinity, so a text that reads as an integer is compared as that
\* integer, and an integer column is less than any other text.
IntColumnEq(col, text) == LET n == ParseI64(text) IN n.some /\ col = n.v

IntColumnGe(col, text) == LET n == ParseI64(text) IN n.some /\ col >= n.v

\* one predicate of the WHERE clause, told by the text in front of its
\* placeholder, on a row
Holds(before, value, row) ==
    CASE before = "AND salt=" -> IntColumnEq(row.salt, value)
      [] before = " AND ppid=" -> IntColumnEq(row.ppid, value)
      [] before = "AND epoch >= " -> IntColumnGe(row.epoch, value)
      [] before = "AND cmd LIKE " -> LikeMatch(value, row.cmd)
      [] before = "AND pwd LIKE " -> LikeMatch(value, row.pwd)
      [] before = "AND pwd = " -> row.pwd = value
      [] OTHER -> TRUE

\* the rows the WHERE clause keeps
Selected(sql, bind, history) ==
    { r \in { history[i] : i \in 1..Len(history) } :
        \A k \in 1..Len(bind) : Holds(sql[Placeholder(sql, k) - 1], bind[k], r) }

HasPiece(sql, piece) == \E i \in 1..Len(sql) : sql[i] = piece

\* the bind value of the placeholder that follows one of the pieces
BindAfter(sql, bind, pieces) ==
    IF \E k \in 1..Len(bind) : sql[Placeholder(sql, k) - 1] \in pieces
    THEN Some(bind[CHOOSE k \in 1..Len(bind) : sql[Placeholder(sql, k) - 1] \in pieces])
    ELSE None

\* the orders of a set in which nothing comes after what it goes before
OrderedSeqs(S, Before(_, _)) ==
    { s \in [1..Cardinality(S) -> S] :
        \A i, j \in 1..Cardinality(S) :
            i < j => s[i] # s[j] /\ ~Before(s[j], s[i]) }

\* LIMIT n OFFSET m: the first m rows are dropped, then at most n are kept;
\* a count of ten digits is beyond any table
Page(rows, sql, bind) ==
    LET off == BindAfter(sql, bind, {" OFFSET "})
        lim == BindAfter(sql, bind,
                   {"LIMIT ", "GROUP BY cmd ORDER BY cnt DESC, max(epoch) DESC LIMIT ",
                    "GROUP BY pwd, cmd ORDER BY cnt DESC, max(epoch) DESC LIMIT "})
        m == IF off.some THEN DigitsValue(off.v) ELSE 0
        rest == SubSeq(rows, m + 1, Len(rows))
    IN  IF ~lim.some \/ Len(lim.v) > 9 THEN rest
        ELSE IF DigitsValue(lim.v) < Len(rest) THEN SubSeq(rest, 1, DigitsValue(lim.v))
        ELSE rest

Max(S) == CHOOSE x \in S : \A y \in S : y <= x

\* GROUP BY: one group per key, with count(*), max(id) and max(epoch)
Groups(rows, Key(_)) ==
    { [key |-> k,
       cnt |-> Cardinality({ r \in rows : Key(r) = k }),
       mid |-> Max({ r.id : r \in { x \in rows : Key(x) = k } }),
       mep |-> Max({ r.epoch : r \in { x \in rows : Key(x) = k } })] :
        k \in { Key(r) : r \in rows } }

EpochIdAsc(a, b) == a.epoch < b.epoch \/ (a.epoch = b.epoch /\ a.id < b.id)

EpochIdDesc(a, b) == a.epoch > b.epoch \/ (a.epoch = b.epoch /\ a.id > b.id)

MaxIdDesc(g, h) == g.mid > h.mid

CntMaxEpochDesc(g, h) == g.cnt > h.cnt \/ (g.cnt = h.cnt /\ g.mep > h.mep)

DayAsc(g, h) == g.key[1] < h.key[1]

KeyCmd(r) == <<r.cmd>>

KeyCmdPwd(r) == <<r.cmd, r.pwd>>

KeyPwdCmd(r) == <<r.pwd, r.cmd>>

\* date(epoch, 'unixepoch', 'localtime'): the number of the local calendar
\* day.  A time zone is the offset of local time from UTC before and after
\* one change of the clocks.
KeyDay(tz, r) ==
    <<(r.epoch + (IF r.epoch < tz.at THEN tz.before ELSE tz.after)) \div 86400>>

\* The results the statement can give: the sequences of result rows, a row
\* of history or a group, that agree with its ORDER BY, cut by its LIMIT
\* and OFFSET.  The columns dt and day are the epoch and the day number.
ExecQuery(sql, bind, history, tz) ==
    LET sel == Selected(sql, bind, history)
        KeyLocalDay(r) == KeyDay(tz, r)
    IN
    IF HasPiece(sql, "ORDER BY epoch ASC, id ASC ") \/ HasPiece(sql, "ORDER BY epoch ASC, id ASC")
    THEN { Page(s, sql, bind) : s \in OrderedSeqs(sel, EpochIdAsc) }
    ELSE IF HasPiece(sql, "ORDER BY epoch DESC, id DESC ")
    THEN { Page(s, sql, bind) : s \in OrderedSeqs(sel, EpochIdDesc) }
    ELSE IF HasPiece(sql, "ORDER BY max(id) DESC ")
    THEN { Page(s, sql, bind) :
             s \in OrderedSeqs(IF HasPiece(sql, ", pwd ") THEN Groups(sel, KeyCmdPwd)
                               ELSE Groups(sel, KeyCmd), MaxIdDesc) }
    ELSE IF HasPiece(sql, "GROUP BY cmd ORDER BY cnt DESC, max(epoch) DESC LIMIT ")
    THEN { Page(s, sql, bind) : s \in OrderedSeqs(Groups(sel, KeyCmd), CntMaxEpochDesc) }
    ELSE IF HasPiece(sql, "GROUP BY pwd, cmd ORDER BY cnt DESC, max(epoch) DESC LIMIT ")
    THEN { Page(s, sql, bind) : s \in OrderedSeqs(Groups(sel, KeyPwdCmd), CntMaxEpochDesc) }
    ELSE { Page(s, sql, bind) : s \in OrderedSeqs(Groups(sel, KeyLocalDay), DayAsc) }

\* ============================================================ the commands
\* list, search, summary, export and stats on a store that a sequence of
\* insert_history calls has filled.
QueryMaxRows == 3

QueryRowPool ==
    { HistoryRow(None, <<"a">>, 57, 7, <<"/", "a">>, 9),
      HistoryRow(Some(1), <<"A">>, 5, 7, <<"/", "A">>, 9),
      HistoryRow(None, <<"%", "a", "%">>, 57, 7, <<"/", "_">>, 8),
      HistoryRow(None, <<"a">>, 5, 6, <<"/", "a", "b">>, 9),
      HistoryRow(None, <<"_">>, 86457, 7, <<"/", "x">>, 8) }

\* the store after insert_history of each row of a sequence
RECURSIVE DbOf(_)
DbOf(rows) ==
    IF rows = <<>> THEN EmptyDb
    ELSE LET db == DbOf(SubSeq(rows, 1, Len(rows) - 1))
             row == rows[Len(rows)]
             tx1 == InsertHistoryRow(db, row)
         IN  InsertOrIgnoreHash(tx1, row_hash(row), last_insert_rowid(tx1)).db

QueryDbs ==
    { DbOf(rows) : rows \in UNION { [1..n -> QueryRowPool] : n \in 0..QueryMaxRows } }

InitQuery ==
    /\ disk \in QueryDbs
    /\ work = disk
    /\ intx = FALSE /\ pc = "idle"
    /\ src = NoSource /\ idx = 0 /\ considered = 0 /\ inserted = 0
    /\ skipped_bad = 0 /\ skipped_dup = 0 /\ pre = EmptyDb
    /\ result = NoResult /\ merged = NotMerged
    /\ call = NoCall
    /\ ret = NoCall

QueryTexts == { <<"a">>, <<"%">>, <<"_">> }

QueryDirs == { <<"/", "a">>, <<"/", "A">>, <<"/", "_">> }

\* the time zones of the process: UTC, and a zone on UTC until the clocks
\* are set back by an hour at 01:00 of the first day
TimeZones ==
    { [at |-> 0, before |-> 0, after |-> 0],
      [at |-> 3600, before |-> 0, after |-> -3600] }

\* the environment of a shell session with the ids (9, 7) in /a, on UTC
SessionEnv ==
    [SDBH_SALT |-> Some(<<"9">>), SDBH_PPID |-> Some(<<"7">>),
     cwd |-> Some(<<"/", "a">>), now |-> Now,
     tz |-> [at |-> 0, before |-> 0, after |-> 0]]

\* environments with other ids, and with one or both variables absent or
\* not an integer
QueryEnvs ==
    { [SessionEnv EXCEPT !.SDBH_SALT = sp[1], !.SDBH_PPID = sp[2]] :
        sp \in { <<Some(<<"9">>), Some(<<"7">>)>>, <<Some(<<"8">>), Some(<<"7">>)>>,
                 <<Some(<<"x">>), Some(<<"7">>)>>, <<Some(<<"9">>), Some(<<"x">>)>>,
                 <<NoText, Some(<<"7">>)>>, <<Some(<<"9">>), NoText>>, <<NoText, NoText>> } }

\* here, under and pwd_override of a call
Locations ==
    { [here |-> FALSE, under |-> FALSE, pwd_override |-> NoText],
      [here |-> TRUE, under |-> FALSE, pwd_override |-> NoText] }
    \cup { [here |-> ~u, under |-> u, pwd_override |-> Some(d)] :
             u \in BOOLEAN, d \in QueryDirs }

NoLocation == [here |-> FALSE, under |-> FALSE, pwd_override |-> NoText]

ListCall(query, limit, offset, all, session, loc, env) ==
    [fn |-> "list", env |-> env,
     args |-> [query |-> query, limit |-> limit, offset |-> offset, all |-> all,
               session |-> session, pwd_override |-> loc.pwd_override,
               here |-> loc.here, under |-> loc.under]]

ListCalls ==
    { ListCall(q, 100, 0, TRUE, FALSE, loc, SessionEnv) :
        q \in OptionOf(QueryTexts), loc \in Locations }
    \cup { ListCall(NoText, l, o, FALSE, FALSE, NoLocation, SessionEnv) :
             l \in 0..2, o \in 0..2 }
    \cup { ListCall(q, 100, o, TRUE, TRUE, NoLocation, e) :
             q \in {NoText, Some(<<"a">>)}, o \in {0, 1}, e \in QueryEnvs }

SearchCall(query, limit, all, session, since_epoch, days, loc, env) ==
    [fn |-> "search", env |-> env,
     args |-> [query |-> query, limit |-> limit, all |-> all, session |-> session,
               since_epoch |-> since_epoch, days |-> days,
               pwd_override |-> loc.pwd_override,
               here |-> loc.here, under |-> loc.under]]

SearchCalls ==
    { SearchCall(q, 100, TRUE, FALSE, None, None, loc, SessionEnv) :
        q \in QueryTexts \cup { <<"A">>, <<"\\">> }, loc \in Locations }
    \cup { SearchCall(<<>>, l, FALSE, FALSE, sd[1], sd[2], NoLocation, SessionEnv) :
             l \in 0..2, sd \in SinceDays }
    \cup { SearchCall(q, 100, TRUE, TRUE, None, None, NoLocation, e) :
             q \in { <<>>, <<"a">> }, e \in QueryEnvs }

SummaryCall(query, limit, starts, all, session, pwd, loc, env) ==
    [fn |-> "summary", env |-> env,
     args |-> [query |-> query, limit |-> limit, starts |-> starts, all |-> all,
               session |-> session, pwd |-> pwd, pwd_override |-> loc.pwd_override,
               here |-> loc.here, under |-> loc.under]]

SummaryCalls ==
    { SummaryCall(q, 100, st, TRUE, FALSE, p, loc, SessionEnv) :
        q \in OptionOf(QueryTexts), st \in BOOLEAN, p \in BOOLEAN,
        loc \in { NoLocation,
                  [here |-> FALSE, under |-> TRUE, pwd_override |-> Some(<<"/", "a">>)] } }
    \cup { SummaryCall(NoText, l, FALSE, FALSE, FALSE, FALSE, NoLocation, SessionEnv) :
             l \in 0..2 }
    \cup { SummaryCall(NoText, 100, FALSE, TRUE, TRUE, FALSE, NoLocation, e) :
             e \in QueryEnvs }

ExportCalls ==
    { [fn |-> "export", env |-> e, args |-> [all |-> FALSE, session |-> s]] :
        s \in BOOLEAN, e \in QueryEnvs }

StatsCalls(fn) ==
    { [fn |-> fn, env |-> [SessionEnv EXCEPT !.tz = tz],
       args |-> [days |-> n, limit |-> l, all |-> a, session |-> FALSE]] :
        n \in {0, 1}, l \in {1, 50}, a \in BOOLEAN,
        tz \in IF fn = "stats daily" THEN TimeZones ELSE {SessionEnv.tz} }
    \cup { [fn |-> fn, env |-> e,
            args |-> [days |-> 1, limit |-> 50, all |-> TRUE, session |-> TRUE]] :
             e \in QueryEnvs }

\* conn.prepare(&sql), stmt.query(..) and the loop over the rows: the
\* command prints the rows of one result of the statement.  A command only
\* reads the store, so a behaviour runs one.
Ran(c, q) ==
    /\ \E rows \in ExecQuery(q.sql, q.bind, disk.history, c.env.tz) :
           ret' = [fn |-> c.fn, sql |-> q.sql, bind |-> q.bind,
                   selected |-> Selected(q.sql, q.bind, disk.history),
                   rows |-> rows]
    /\ call' = c
    /\ UNCHANGED store

cmd_list ==
    /\ call = NoCall
    /\ \E c \in ListCalls : Ran(c, build_list_sql(c.args, c.env))

cmd_search ==
    /\ call = NoCall
    /\ \E c \in SearchCalls : Ran(c, build_search_sql(c.args, c.env))

cmd_summary ==
    /\ call = NoCall
    /\ \E c \in SummaryCalls : Ran(c, build_summary_sql(c.args, c.env))

cmd_export ==
    /\ call = NoCall
    /\ \E c \in ExportCalls : Ran(c, build_export_sql(c.args, c.env))

cmd_stats_top ==
    /\ call = NoCall
    /\ \E c \in StatsCalls("stats top") : Ran(c, build_stats_top_sql(c.args, c.env))

cmd_stats_by_pwd ==
    /\ call = NoCall
    /\ \E c \in StatsCalls("stats by-pwd") :
           Ran(c, build_stats_by_pwd_sql(c.args, c.env))

cmd_stats_daily ==
    /\ call = NoCall
    /\ \E c \in StatsCalls("stats daily") :
           Ran(c, build_stats_daily_sql(c.args, c.env))

NextQuery ==
    \/ cmd_list
    \/ cmd_search
    \/ cmd_summary
    \/ cmd_export
    \/ cmd_stats_top
    \/ cmd_stats_by_pwd
    \/ cmd_stats_daily

SpecQuery == InitQuery /\ [][NextQuery]_vars

\* ------------------------------------------------- claims on the commands
IsPrefix(d, t) == Len(d) <= Len(t) /\ SubSeq(t, 1, Len(d)) = d

\* t contains q as a substring
Contains(t, q) ==
    \E i \in 0..(Len(t) - Len(q)) : SubSeq(t, i + 1, i + Len(q)) = q

Lowered(t) == [i \in 1..Len(t) |-> ToLower(t[i])]

\* the statement a command builds
BuildFor(fn, args, env) ==
    CASE fn = "list" -> build_list_sql(args, env)
      [] fn = "search" -> build_search_sql(args, env)
      [] fn = "summary" -> build_summary_sql(args, env)
      [] fn = "export" -> build_export_sql(args, env)
      [] fn = "stats top" -> build_stats_top_sql(args, env)
      [] fn = "stats by-pwd" -> build_stats_by_pwd_sql(args, env)
      [] fn = "stats daily" -> build_stats_daily_sql(args, env)

\* the rows the command keeps when its arguments are args
SelectedWith(args) ==
    LET q == BuildFor(call.fn, args, call.env) IN Selected(q.sql, q.bind, disk.history)

\* the command ran with --under and a directory to filter by
RanUnder ==
    /\ ret.fn \in {"list", "search", "summary"}
    /\ call.args.under
    /\ location_filter(call.args.here, call.args.under, call.args.pwd_override,
                       call.env).some

\* C16: a list, search or summary query with under = d returns a row only
\* if the row's pwd has d as a literal prefix; '%' and '_' inside d never
\* act as wildcards.
C16_UnderIsLiteralPrefix ==
    RanUnder => \A r \in ret.selected : IsPrefix(call.args.pwd_override.v, r.pwd)

\* C17: with query q, list returns exactly the rows, within the other
\* filters, whose cmd contains q as a literal substring, and summary groups
\* exactly those rows, or with --starts the rows whose cmd begins with q.
C17_QueryIsLiteralSubstring ==
    (ret.fn \in {"list", "summary"} /\ call.args.query.some) =>
        ret.selected =
            { r \in SelectedWith([call.args EXCEPT !.query = NoText]) :
                IF ret.fn = "summary" /\ call.args.starts
                THEN IsPrefix(call.args.query.v, r.cmd)
                ELSE Contains(r.cmd, call.args.query.v) }

\* C18: search with query q returns only rows whose cmd contains q as a
\* literal substring compared without regard to ASCII case, for every q,
\* those with '%', '_' or '\' included.
C18_SearchMatchesSubstringNoCase ==
    ret.fn = "search" =>
        /\ \A r \in ret.selected : Contains(Lowered(r.cmd), Lowered(call.args.query))
        /\ \A i \in 1..Len(ret.rows) : ret.rows[i] \in ret.selected

\* search "%" on a store with the commands %a% and a returned the first
\* and not the second
C18_Witness ==
    /\ ret.fn = "search"
    /\ call.args.query = <<"%">>
    /\ \E i \in 1..Len(ret.rows) : ret.rows[i].cmd = <<"%", "a", "%">>
    /\ \E i \in 1..Len(disk.history) : disk.history[i].cmd = <<"a">>
    /\ \A i \in 1..Len(ret.rows) : ret.rows[i].cmd # <<"a">>

\* the number of rows of S that come before r in (epoch, id) order
OlderIn(S, r) ==
    Cardinality({ x \in S : x.epoch < r.epoch \/ (x.epoch = r.epoch /\ x.id < r.id) })

NewerIn(S, r) ==
    Cardinality({ x \in S : x.epoch > r.epoch \/ (x.epoch = r.epoch /\ x.id > r.id) })

\* how many of n rows are left after offset rows are dropped and at most
\* limit are kept
LeftOf(n, offset, all, limit) ==
    LET rest == IF n > offset THEN n - offset ELSE 0 IN
    IF all \/ limit > rest THEN rest ELSE limit

IsIntegerText(t) ==
    LET digits == IF t # <<>> /\ Head(t) \in {"-", "+"} THEN Tail(t) ELSE t IN
    digits # <<>> /\ \A i \in 1..Len(digits) : IsDigit(digits[i])

\* both session variables hold integers
SessionIdsValid(env) ==
    /\ env.SDBH_SALT.some /\ IsIntegerText(env.SDBH_SALT.v)
    /\ env.SDBH_PPID.some /\ IsIntegerText(env.SDBH_PPID.v)

IsCommand(fn) ==
    fn \in {"list", "search", "summary", "export", "stats top", "stats by-pwd",
            "stats daily"}

\* C20: with the session option set and integers in both SDBH_SALT and
\* SDBH_PPID, list, search, summary, stats and export return only rows with
\* that (salt, ppid); with the option set and either variable absent or not
\* an integer the query succeeds and returns the rows of all sessions,
\* exactly as with the option unset.
C20_SessionFilterDegrades ==
    (IsCommand(ret.fn) /\ call.args.session) =>
        LET unset == [call.args EXCEPT !.session = FALSE]
            q == BuildFor(call.fn, unset, call.env)
        IN  IF SessionIdsValid(call.env)
            THEN ret.selected =
                     { r \in SelectedWith(unset) :
                         /\ to_string(r.salt) = call.env.SDBH_SALT.v
                         /\ to_string(r.ppid) = call.env.SDBH_PPID.v }
            ELSE /\ ret.sql = q.sql /\ ret.bind = q.bind
                 /\ ret.selected = SelectedWith(unset)
                 /\ ret.rows \in ExecQuery(q.sql, q.bind, disk.history, call.env.tz)

\* export --session with SDBH_SALT=9 and a non-integer SDBH_PPID printed
\* the rows of two sessions
C20_Witness ==
    /\ ret.fn = "export"
    /\ call.args.session
    /\ call.env.SDBH_SALT = Some(<<"9">>) /\ call.env.SDBH_PPID = Some(<<"x">>)
    /\ \E i, j \in 1..Len(ret.rows) : ret.rows[i].salt # ret.rows[j].salt

\* ============================================================ limit policy
\* the pieces of SQL text that end in a LIMIT clause awaiting its value
LimitPieces ==
    {"LIMIT ", "GROUP BY cmd ORDER BY cnt DESC, max(epoch) DESC LIMIT ",
     "GROUP BY pwd, cmd ORDER BY cnt DESC, max(epoch) DESC LIMIT "}

\* the statement has one LIMIT clause, its value a placeholder
EmitsLimit(sql) ==
    Cardinality({ i \in 1..Len(sql) : sql[i] \in LimitPieces }) = 1
    /\ \E i \in 1..(Len(sql) - 1) : sql[i] \in LimitPieces /\ sql[i + 1] = "?"

\* the value bound to the LIMIT placeholder follows the policy
LimitBoundByPolicy ==
    LET lim == BindAfter(ret.sql, ret.bind, LimitPieces) IN
    /\ lim.some
    /\ lim.v = IF call.args.all THEN <<"4", "2", "9", "4", "9", "6", "7", "2", "9", "5">>
               ELSE to_string(call.args.limit)

SummaryKey(r) == IF call.args.pwd THEN <<r.cmd, r.pwd>> ELSE <<r.cmd>>

\* the selected rows of one group
SummaryRowsOf(k) == { r \in ret.selected : SummaryKey(r) = k }

\* the largest id of a group
SummaryMaxId(k) ==
    CHOOSE i \in { r.id : r \in SummaryRowsOf(k) } :
        \A r \in SummaryRowsOf(k) : r.id <= i

\* C22: for any store contents, summary returns one group per distinct cmd
\* (per distinct (cmd, pwd) when the pwd flag is set) of the rows it
\* selects, each carrying the maximum id and the number of rows of the
\* group, the groups ordered by maximum id descending (and cut to the
\* limit when 'all' is not set).
C22_SummaryGroups ==
    ret.fn = "summary" =>
        LET keys == { SummaryKey(r) : r \in ret.selected } IN
        /\ Len(ret.rows) = LeftOf(Cardinality(keys), 0, call.args.all, call.args.limit)
        /\ \A i \in 1..Len(ret.rows) :
               /\ ret.rows[i].key \in keys
               /\ ret.rows[i].cnt = Cardinality(SummaryRowsOf(ret.rows[i].key))
               /\ ret.rows[i].mid = SummaryMaxId(ret.rows[i].key)
               /\ Cardinality({ k \in keys : SummaryMaxId(k) > ret.rows[i].mid }) = i - 1

\* "a" was logged in /a, then in /ab, then in /a again; summary with the
\* pwd flag returned the group (a, /a) with count 2 and id 3, then the
\* group (a, /ab) with count 1 and id 2
C22_Witness ==
    /\ ret.fn = "summary"
    /\ call.args.pwd /\ call.args.all /\ ~call.args.query.some
    /\ Len(disk.history) = 3
    /\ ret.rows = << [key |-> <<<<"a">>, <<"/", "a">>>>, cnt |-> 2, mid |-> 3, mep |-> 57],
                     [key |-> <<<<"a">>, <<"/", "a", "b">>>>, cnt |-> 1, mid |-> 2, mep |-> 5] >>

\* ------------------------------------------------------------------ stats
\* the rows a stats call has to count: those not older than `days` days, of
\* the session when the session filter applies
StatsCounted ==
    { r \in { disk.history[i] : i \in 1..Len(disk.history) } :
        /\ r.epoch >= call.env.now - call.args.days * 86400
        /\ (call.args.session /\ SessionIdsValid(call.env)) =>
               /\ to_string(r.salt) = call.env.SDBH_SALT.v
               /\ to_string(r.ppid) = call.env.SDBH_PPID.v }

\* what a stats call groups a row by
StatsKey(r) ==
    CASE ret.fn = "stats top" -> <<r.cmd>>
      [] ret.fn = "stats by-pwd" -> <<r.pwd, r.cmd>>
      [] ret.fn = "stats daily" -> KeyDay(call.env.tz, r)

StatsCount(k) == Cardinality({ r \in StatsCounted : StatsKey(r) = k })

StatsLatest(k) == Max({ r.epoch : r \in { x \in StatsCounted : StatsKey(x) = k } })

\* group k comes before group l: a larger count, or the same count and a
\* later latest epoch
StatsBefore(k, l) ==
    \/ StatsCount(k) > StatsCount(l)
    \/ StatsCount(k) = StatsCount(l) /\ StatsLatest(k) > StatsLatest(l)

\* the cutoff, and the order of 'top' and 'by directory'
StatsRanked ==
    /\ ret.fn \in {"stats top", "stats by-pwd", "stats daily"} =>
           ret.selected = StatsCounted
    /\ ret.fn \in {"stats top", "stats by-pwd"} =>
           LET keys == { StatsKey(r) : r \in StatsCounted }
               returned == { ret.rows[i].key : i \in 1..Len(ret.rows) }
           IN  /\ Len(ret.rows) = LeftOf(Cardinality(keys), 0, call.args.all,
                                         call.args.limit)
               /\ \A i \in 1..Len(ret.rows) :
                      /\ ret.rows[i].key \in keys
                      /\ ret.rows[i].cnt = StatsCount(ret.rows[i].key)
                      /\ \A k \in keys \ returned : ~StatsBefore(k, ret.rows[i].key)
               /\ \A i, j \in 1..Len(ret.rows) :
                      i < j => /\ ret.rows[i].key # ret.rows[j].key
                               /\ ~StatsBefore(ret.rows[j].key, ret.rows[i].key)

\* 'daily': one bucket per local calendar day, earlier days first
StatsDailyBuckets ==
    ret.fn = "stats daily" =>
        LET days == { StatsKey(r) : r \in StatsCounted } IN
        /\ Len(ret.rows) = Cardinality(days)
        /\ \A i \in 1..Len(ret.rows) :
               /\ ret.rows[i].key \in days
               /\ ret.rows[i].cnt = StatsCount(ret.rows[i].key)
        /\ \A i, j \in 1..Len(ret.rows) :
               i < j => ret.rows[i].key[1] < ret.rows[j].key[1]
        /\ \A r, x \in StatsCounted :
               StatsKey(r)[1] < StatsKey(x)[1] => r.epoch < x.epoch

\* the offset of local time from UTC at an instant
OffsetAt(tz, epoch) == IF epoch < tz.at THEN tz.before ELSE tz.after

\* C23 as stated: each stats query counts only rows with epoch >= now -
\* N*86400; 'top' and 'by directory' are ordered by count descending, ties
\* broken by the group's latest epoch descending; 'daily' returns one
\* bucket per calendar day in ascending order, and two rows exactly 86400
\* seconds apart are in two distinct buckets.
C23_StatsDayApartDistinct ==
    /\ StatsRanked
    /\ StatsDailyBuckets
    /\ ret.fn = "stats daily" =>
           \A r, x \in StatsCounted :
               x.epoch = r.epoch + 86400 => StatsKey(r) # StatsKey(x)

\* C23, amended: the same, two rows exactly 86400 seconds apart being in
\* two distinct buckets when local time has the same offset from UTC at
\* both instants.
C23_Stats ==
    /\ StatsRanked
    /\ StatsDailyBuckets
    /\ ret.fn = "stats daily" =>
           \A r, x \in StatsCounted :
               (/\ x.epoch = r.epoch + 86400
                /\ OffsetAt(call.env.tz, r.epoch) = OffsetAt(call.env.tz, x.epoch))
                   => StatsKey(r) # StatsKey(x)

\* on UTC, stats daily over the last day on a store with one row at 00:00:57
\* of the first day and one 86400 seconds later returned two buckets of
\* count 1, the earlier day first
C23_Witness ==
    /\ ret.fn = "stats daily"
    /\ call.env.tz.after = 0
    /\ call.args.days = 1
    /\ Len(disk.history) = 2
    /\ disk.history[1].epoch = 86457 /\ disk.history[2].epoch = 57
    /\ ret.rows = << [key |-> <<0>>, cnt |-> 1, mid |-> 2, mep |-> 57],
                     [key |-> <<1>>, cnt |-> 1, mid |-> 1, mep |-> 86457] >>

\* =========================================================== insert_history
\* a step in which insert_history returned
InsertHistoryReturned ==
    result'.op = "insert" /\ (result' # result \/ disk' # disk)

\* C24: insert_history is all-or-nothing.  When it returns Ok(id) the file
\* holds one more history row, whose id is the returned id, and a
\* fingerprint entry for that row's fingerprint, nothing else having
\* changed; when it returns an error neither table has changed, in the file
\* or as the connection sees it.
C24_InsertAllOrNothing ==
    [][InsertHistoryReturned =>
         IF result'.ok
         THEN LET n == Len(disk.history)
                  new == disk'.history[n + 1]
              IN  /\ Len(disk'.history) = n + 1
                  /\ SubSeq(disk'.history, 1, n) = disk.history
                  /\ new.id = result'.id
                  /\ \A i \in 1..n : disk.history[i].id # new.id
                  /\ \E e \in disk'.history_hash : e.hash = StoredHash(new)
                  /\ disk.history_hash \subseteq disk'.history_hash
                  /\ disk'.history_hash \ disk.history_hash
                         \subseteq {[hash |-> StoredHash(new), history_id |-> new.id]}
                  /\ work' = disk'
         ELSE /\ disk' = disk
              /\ work' = work]_vars

\* insert_history failed on a store that holds a row: the row and its
\* fingerprint entry are all the file holds
C24_Witness ==
    /\ result = InsertErr("statement")
    /\ Len(disk.history) = 1
    /\ disk.history_hash = {[hash |-> StoredHash(disk.history[1]), history_id |-> 1]}
    /\ work = disk

\* ================================================= open_db, ensure_indexes
\* The schema of a store file.  In this part `disk` is a file with its
\* named tables and indexes (objects), the rows of meta, and the history
\* and history_hash rows (db); `call` is the last function called, how many
\* calls were made and which functions they were.
MaxCalls == 4

\* the files open_db may find: none, a history table made by another
\* program, stores this program made (with and without the indexes), and a
\* store whose schema_version a later version has raised
SchemaFiles ==
    { [objects |-> {}, meta |-> {}, db |-> EmptyDb],
      [objects |-> {"history"}, meta |-> {},
       db |-> [DbOf(<<HistoryRow(Some(1), ls, 5, 7, root, 9)>>)
                  EXCEPT !.history_hash = {}]] }
    \cup { [objects |-> {"history", "meta", "history_hash"} \cup ix,
            meta |-> {[key |-> "schema_version", value |-> v]},
            db |-> DbOf(rows)] :
             ix \in { {}, {"idx_history_hash"},
                      {"idx_history_epoch", "idx_history_session",
                       "idx_history_pwd", "idx_history_hash"} },
             v \in {"1", "2"},
             rows \in SeqsUpTo(InsertRowPool, 1) }

\* faulty variant: INSERT OR REPLACE INTO meta
init_schemaReplaceVersion(f) ==
    [f EXCEPT !.objects = @ \cup {"history", "meta", "history_hash"},
              !.meta = { e \in @ : e.key # "schema_version" }
                       \cup {[key |-> "schema_version", value |-> "1"]}]

\* three CREATE TABLE IF NOT EXISTS, then INSERT OR IGNORE INTO meta with
\* key TEXT PRIMARY KEY
init_schema(f) ==
    [f EXCEPT !.objects = @ \cup {"history", "meta", "history_hash"},
              !.meta = IF \E e \in @ : e.key = "schema_version" THEN @
                       ELSE @ \cup {[key |-> "schema_version", value |-> "1"]}]

\* four CREATE INDEX IF NOT EXISTS
ensure_indexes(f) ==
    [f EXCEPT !.objects = @ \cup {"idx_history_epoch", "idx_history_session",
                                  "idx_history_pwd", "idx_history_hash"}]

InitSchema ==
    /\ disk \in SchemaFiles
    /\ work = EmptyDb
    /\ intx = FALSE /\ pc = "idle"
    /\ src = NoSource /\ idx = 0 /\ considered = 0 /\ inserted = 0
    /\ skipped_bad = 0 /\ skipped_dup = 0 /\ pre = EmptyDb
    /\ result = NoResult /\ merged = NotMerged
    /\ call = [fn |-> "none", n |-> 0, called |-> {}]
    /\ ret = NoCall

\* open_db: Connection::open and init_schema
OpenDb ==
    /\ call.n < MaxCalls
    /\ disk' = init_schema(disk)
    /\ call' = [fn |-> "open_db", n |-> call.n + 1,
                called |-> call.called \cup {"open_db"}]
    /\ UNCHANGED <<work, intx, pc, locals, result, merged, ret>>

\* ensure_indexes on a connection open_db returned
EnsureIndexes ==
    /\ call.n < MaxCalls
    /\ "open_db" \in call.called
    /\ disk' = ensure_indexes(disk)
    /\ call' = [fn |-> "ensure_indexes", n |-> call.n + 1,
                called |-> call.called \cup {"ensure_indexes"}]
    /\ UNCHANGED <<work, intx, pc, locals, result, merged, ret>>

NextSchema ==
    \/ OpenDb
    \/ EnsureIndexes

SpecSchema == InitSchema /\ [][NextSchema]_vars

SchemaVersions(f) == { e \in f.meta : e.key = "schema_version" }

\* C25: open_db and ensure_indexes are idempotent and leave data untouched:
\* a call of either changes no row of history or history_hash; a
\* schema_version entry that is there keeps its value, and after the call
\* there is exactly one; a call of a function that was called before
\* leaves the set of tables and indexes as it is.
C25_SchemaIdempotent ==
    [][call'.n = call.n + 1 =>
         /\ disk'.db = disk.db
         /\ SchemaVersions(disk) # {} => disk'.meta = disk.meta
         /\ Cardinality(SchemaVersions(disk')) = 1
         /\ call'.fn \in call.called => disk'.objects = disk.objects]_vars

\* open_db, ensure_indexes and open_db again on a store with a row and
\* schema_version 2: the row, the version and the seven objects are there
C25_Witness ==
    /\ call.n = 3 /\ call.fn = "open_db" /\ "ensure_indexes" \in call.called
    /\ Len(disk.db.history) = 1
    /\ disk.meta = {[key |-> "schema_version", value |-> "2"]}
    /\ Cardinality(disk.objects) = 7

\* ========================================================== import-history
\* cmd_import_history on a bash history file.  In this part `src.rows` is
\* the lines of the file, `idx` the number of lines it had when
\* import-history last ran, and `ret` the report of that run.
MaxHistLines == 3

MaxRuns == 2

\* what a shell writes to the file for one command: the command line, or
\* with timestamps enabled a line "#5" and the command line
HistUnits == { << <<"a">> >>, << <<"b">> >>, << <<"#", "5">>, <<"a">> >> }

\* read_bash_history, on the lines of the file: the loop with its
\* pending_epoch
RECURSIVE BashEntries(_, _)
BashEntries(lines, pending_epoch) ==
    IF lines = <<>> THEN <<>>
    ELSE LET line == TrimEnd(Head(lines)) IN
         IF line = <<>> THEN BashEntries(Tail(lines), pending_epoch)
         ELSE IF Head(line) = "#" /\ ParseI64(Trim(Tail(line))).some
              THEN BashEntries(Tail(lines), ParseI64(Trim(Tail(line))))
         ELSE <<[epoch |-> pending_epoch, cmd |-> line]>>
              \o BashEntries(Tail(lines), None)

read_bash_history(lines) == BashEntries(lines, None)

\* the loop of cmd_import_history over the entries that are left: the
\* store it ends with and the number of rows it inserted
RECURSIVE ImportEntries(_, _, _, _)
ImportEntries(db, entries, next_synth_epoch, args) ==
    IF entries = <<>> THEN [db |-> db, inserted |-> 0]
    ELSE LET e == Head(entries)
             next == IF e.epoch.some THEN next_synth_epoch ELSE next_synth_epoch + 1
             row == HistoryRow(None, e.cmd, IF e.epoch.some THEN e.epoch.v ELSE next,
                               args.ppid, args.pwd, args.salt)
             hash == row_hash(row)
         IN  IF HashExists(db, hash)
             THEN ImportEntries(db, Tail(entries), next, args)
             ELSE LET tx1 == InsertHistoryRow(db, row)
                      db1 == InsertOrIgnoreHash(tx1, hash, last_insert_rowid(tx1)).db
                      rest == ImportEntries(db1, Tail(entries), next, args)
                  IN  [db |-> rest.db, inserted |-> rest.inserted + 1]

\* a new store and a history file of up to two commands
InitHist ==
    /\ disk = EmptyDb
    /\ work = EmptyDb
    /\ intx = FALSE /\ pc = "idle"
    /\ src \in { [kind |-> "bash", rows |-> lines] :
                   lines \in {<<>>} \cup { u : u \in HistUnits }
                             \cup { u \o v : u, v \in HistUnits } }
    /\ idx = 0 /\ considered = 0 /\ inserted = 0
    /\ skipped_bad = 0 /\ skipped_dup = 0 /\ pre = EmptyDb
    /\ result = NoResult /\ merged = NotMerged
    /\ call = NoCall
    /\ ret = [fn |-> "none", runs |-> 0]

\* the shell appends command lines without timestamps to the file
AppendHistLines ==
    /\ \E new \in SeqsUpTo({<<"a">>, <<"b">>, <<"c">>}, 2) :
           /\ new # <<>>
           /\ Len(read_bash_history(src.rows \o new)) <= MaxHistLines
           /\ src' = [src EXCEPT !.rows = @ \o new]
    /\ UNCHANGED <<disk, work, intx, pc, idx, considered, inserted, skipped_bad,
                   skipped_dup, pre, result, merged, call, ret>>

\* import-history --bash FILE --pwd / --ppid 7 --salt 9
cmd_import_history ==
    /\ ret.runs < MaxRuns
    /\ LET args == [pwd |-> root, ppid |-> 7, salt |-> 9]
           entries == read_bash_history(src.rows)
           missing == Cardinality({ i \in 1..Len(entries) : ~entries[i].epoch.some })
           done == ImportEntries(disk, entries, 1000000000 - missing, args)
       IN  /\ disk' = done.db
           /\ work' = done.db
           /\ ret' = [fn |-> "import-history", runs |-> ret.runs + 1,
                      considered |-> Len(entries), inserted |-> done.inserted,
                      appended |-> Len(src.rows) - idx]
    /\ idx' = Len(src.rows)
    /\ UNCHANGED <<intx, pc, src, considered, inserted, skipped_bad, skipped_dup,
                   pre, result, merged, call>>

NextHist ==
    \/ AppendHistLines
    \/ cmd_import_history

SpecHist == InitHist /\ [][NextHist]_vars

\* C26: import-history dedups across runs: a run after an earlier run on
\* the same file (same pwd, ppid, salt) inserts only the entries the
\* earlier run did not import: 0 rows when the file is unchanged, exactly k
\* when k lines without timestamps were appended since.
C26_ImportHistoryDedups ==
    (ret.fn = "import-history" /\ ret.runs >= 2) => ret.inserted = ret.appended

\* a run on an unchanged file inserts nothing
UnchangedFileInsertsNothing ==
    (ret.fn = "import-history" /\ ret.runs >= 2 /\ ret.appended = 0) => ret.inserted = 0

\* ==================================================== rows without hist_id
\* the source row at hand has a hist_id that is NULL or does not coerce,
\* and epoch, ppid and salt that do
AtRowWithoutHistId ==
    /\ pc = "loop" /\ idx <= Len(src.rows)
    /\ ~value_to_i64(CurrentRaw.hist_id).some
    /\ NumericOk(CurrentRaw)

\* the fingerprint of the row at hand, its hist_id field empty
HashWithoutHistId ==
    Sha256Hex(to_string(value_to_i64(CurrentRaw.epoch).v) \o <<"\n">> \o
              to_string(value_to_i64(CurrentRaw.ppid).v) \o <<"\n">> \o
              to_string(value_to_i64(CurrentRaw.salt).v) \o <<"\n">> \o
              <<"\n">> \o CurrentRaw.pwd.s \o <<"\n">> \o CurrentRaw.cmd.s)

\* the step counts the row as considered and not as corrupted, goes on
\* with the next row, and has stored the row with hist_id absent under
\* that fingerprint unless the fingerprint was stored before
MergedWithoutHistId ==
    /\ pc' = "loop"
    /\ idx' = idx + 1
    /\ considered' = considered + 1
    /\ skipped_bad' = skipped_bad
    /\ IF \E e \in work.history_hash : e.hash = HashWithoutHistId
       THEN work' = work /\ inserted' = inserted
       ELSE /\ inserted' = inserted + 1
            /\ Len(work'.history) = Len(work.history) + 1
            /\ SubSeq(work'.history, 1, Len(work.history)) = work.history
            /\ LET new == work'.history[Len(work'.history)] IN
               /\ new.hist_id = None
               /\ new.cmd = CurrentRaw.cmd.s /\ new.pwd = CurrentRaw.pwd.s
               /\ new.epoch = value_to_i64(CurrentRaw.epoch).v
               /\ new.ppid = value_to_i64(CurrentRaw.ppid).v
               /\ new.salt = value_to_i64(CurrentRaw.salt).v
               /\ work'.history_hash = work.history_hash
                      \cup {[hash |-> HashWithoutHistId, history_id |-> new.id]}

\* the step is neither the interruption of the process nor the failure of
\* a statement on the destination
DestinationWorks ==
    /\ intx'
    /\ ~(result'.op = "import" /\ result'.err \in {"statement", "constraint"})

\* C27: a source row whose hist_id is NULL or cannot be coerced to an
\* integer, but whose epoch, ppid and salt are parseable, is not skipped
\* and not counted as corrupted: import_from_db merges it with hist_id
\* absent, its fingerprint computed with the empty hist_id field.
C27_RowWithoutHistIdMerged ==
    [][(AtRowWithoutHistId /\ DestinationWorks) => MergedWithoutHistId]_vars

\* the same for the rows whose cmd and pwd are texts
RowWithoutHistIdMergedWhenReadable ==
    [][(AtRowWithoutHistId /\ RowReadable(CurrentRaw) /\ DestinationWorks)
           => MergedWithoutHistId]_vars

\* ------------------------------------------ transaction left open (C28)
\* a step on which import_from_db returns after its BEGIN was executed
ImportReturns == pc # "idle" /\ pc' = "idle" /\ result'.op = "import"

\* C28: import_from_db never returns with a transaction still open on the
\* destination connection: on every return path after its BEGIN, success or
\* error, the connection holds no transaction any more.
C28_ImportClosesTransaction == [][ImportReturns => ~intx']_vars

\* what does hold: the successful return has committed, and a call that is
\* refused for the transaction left open leaves the store as it was
ImportOkClosesTransaction ==
    [][(ImportReturns /\ result'.ok) => (~intx' /\ disk' = work')]_vars

\* the consequence the claim names: insert_history on the connection that
\* import_from_db returned an error on cannot start its transaction
InsertRefusedAfterImportError ==
    /\ pc = "idle"
    /\ intx
    /\ result = InsertErr("begin")

\* ------------------------------------------------ store consistency (C29)
\* every fingerprint entry references an existing history row that has
\* the entry's fingerprint, and every history row's fingerprint is a key
StoreConsistent(db) ==
    /\ \A e \in db.history_hash :
          \E i \in 1..Len(db.history) :
              /\ db.history[i].id = e.history_id
              /\ StoredHash(db.history[i]) = e.hash
    /\ \A i \in 1..Len(db.history) :
          \E e \in db.history_hash : e.hash = StoredHash(db.history[i])

\* C29: after any sequence of insert_history and import_from_db on a store
\* created by open_db, every fingerprint entry references the id of an
\* existing history row whose row_hash equals the entry's key, and every
\* history row's row_hash is a key of the fingerprint table.
C29_StoreConsistent == StoreConsistent(disk)

\* a store that earlier operations filled, after an import that merged a
\* row: it holds rows that share a fingerprint and rows that do not
C29_Witness ==
    /\ pc = "idle"
    /\ result.op = "import" /\ result.ok /\ result.inserted >= 1
    /\ result.inserted < Len(disk.history)
    /\ Cardinality(disk.history_hash) >= 2
    /\ Len(disk.history) > Cardinality(disk.history_hash)

\* the connection's own view inside a transaction that import_from_db left
\* open on an error may hold a history row whose fingerprint statement
\* never ran; it is never committed
OpenTransactionConsistent == StoreConsistent(work)

\* ================================================= two processes (C30)
\* Two processes on one store file. Each process opens its own connection,
\* runs one insert_history or one import_from_db and ends. In this
\* specification every per-connection variable is a function of the process:
\* work[p] is the store as p's transaction sees it, intx[p] the file lock
\* p's connection holds, pc[p] the place p has reached, call[p] the
\* operation p runs. disk is the committed file, pre the file before either
\* process started.
\*
\* The engine's rollback-journal locking: the first read of a transaction
\* takes a SHARED lock, refused while another connection holds PENDING; the
\* first write takes RESERVED, refused while another holds RESERVED or
\* PENDING; COMMIT of a writer needs EXCLUSIVE, refused while another holds
\* SHARED, and the refused writer is left with PENDING; while the writer
\* holds EXCLUSIVE no other connection gets any lock. A refused lock is
\* SQLITE_BUSY, which the functions return with `?`; the engine may wait
\* for the lock before it gives up, which here is the other process moving
\* first.
Procs == {1, 2}

\* the store before the two processes start: empty, or one event logged
TwoStores == { DbOf(<<>>), DbOf(<<HistoryRow(Some(1), ls, 5, 7, root, 9)>>) }

\* the source files of the imports: the event of TwoStores alone, with a
\* second event, preceded by a corrupted row, and twice
TwoSources ==
    LET r1 == SrcRow(Integer(1), Text(ls), Integer(5), Integer(7), Text(root), Integer(9))
        r2 == SrcRow(Null, Text(<<"c">>), Real(5, 0), Integer(7),
                     Text(<<"a", "\n", "b">>), Integer(9))
        bad == SrcRow(Integer(2), Text(<<"b", "a", "d">>), Text(<<"b", "a", "d">>),
                      Integer(7), Text(root), Integer(9))
    IN  { [kind |-> "history", rows |-> rs] :
              rs \in { <<r1>>, <<r1, r2>>, <<bad, r2>>, <<r2, r2>> } }

\* p may read: it holds a lock already, or no other connection is PENDING
\* or EXCLUSIVE
CanRead(p) ==
    intx[p] # "unlocked" \/ \A q \in Procs \ {p} : intx[q] \notin {"pending", "exclusive"}

\* p may take RESERVED
CanWrite(p) == \A q \in Procs \ {p} : intx[q] \notin {"reserved", "pending", "exclusive"}

\* p may take EXCLUSIVE
CanCommit(p) == \A q \in Procs \ {p} : intx[q] = "unlocked"

\* the store as p reads it: its transaction's pages once it holds a lock
View(p) == IF intx[p] = "unlocked" THEN disk ELSE work[p]

InitTwo ==
    /\ disk \in TwoStores
    /\ pre = disk
    /\ work = [p \in Procs |-> disk]
    /\ intx = [p \in Procs |-> "unlocked"]
    /\ pc = [p \in Procs |-> "start"]
    /\ src = [p \in Procs |-> NoSource]
    /\ idx = [p \in Procs |-> 0]
    /\ considered = [p \in Procs |-> 0]
    /\ inserted = [p \in Procs |-> 0]
    /\ skipped_bad = [p \in Procs |-> 0]
    /\ skipped_dup = [p \in Procs |-> 0]
    /\ result = [p \in Procs |-> NoResult]
    /\ call = [p \in Procs |-> NoCall]
    /\ merged = NotMerged
    /\ ret = NoCall

\* insert_history: conn.transaction(), the two INSERTs
TwoInsertHistory(p, row) ==
    /\ pc[p] = "start"
    /\ CanRead(p) /\ CanWrite(p)
    /\ LET tx1 == InsertHistoryRow(disk, row)
       IN  work' = [work EXCEPT ![p] =
                        InsertOrIgnoreHash(tx1, row_hash(row), last_insert_rowid(tx1)).db]
    /\ intx' = [intx EXCEPT ![p] = "reserved"]
    /\ pc' = [pc EXCEPT ![p] = "commit"]
    /\ call' = [call EXCEPT ![p] = [fn |-> "insert_history"]]
    /\ UNCHANGED <<disk, pre, src, idx, considered, inserted, skipped_bad,
                   skipped_dup, result, merged, ret>>

\* insert_history: the first INSERT is refused the lock; the Transaction
\* is dropped
TwoInsertHistoryBusy(p, row) ==
    /\ pc[p] = "start"
    /\ ~(CanRead(p) /\ CanWrite(p))
    /\ result' = [result EXCEPT ![p] = InsertErr("busy")]
    /\ pc' = [pc EXCEPT ![p] = "returned"]
    /\ call' = [call EXCEPT ![p] = [fn |-> "insert_history"]]
    /\ UNCHANGED <<disk, pre, work, intx, src, idx, considered, inserted,
                   skipped_bad, skipped_dup, merged, ret>>

\* insert_history: tx.commit() takes EXCLUSIVE and writes the pages
TwoInsertHistoryCommit(p) ==
    /\ pc[p] = "commit"
    /\ CanCommit(p)
    /\ intx' = [intx EXCEPT ![p] = "exclusive"]
    /\ pc' = [pc EXCEPT ![p] = "committing"]
    /\ UNCHANGED <<disk, pre, work, src, idx, considered, inserted, skipped_bad,
                   skipped_dup, result, call, merged, ret>>

\* insert_history: tx.commit() is refused; the Transaction is dropped and
\* rolls back
TwoInsertHistoryCommitBusy(p) ==
    /\ pc[p] = "commit"
    /\ ~CanCommit(p)
    /\ work' = [work EXCEPT ![p] = disk]
    /\ intx' = [intx EXCEPT ![p] = "unlocked"]
    /\ result' = [result EXCEPT ![p] = InsertErr("busy")]
    /\ pc' = [pc EXCEPT ![p] = "returned"]
    /\ UNCHANGED <<disk, pre, src, idx, considered, inserted, skipped_bad,
                   skipped_dup, call, merged, ret>>

\* import_from_db: the source is opened, BEGIN (deferred: no lock yet), the
\* source has a history table, the SELECT is prepared
TwoImportBegin(p, s) ==
    /\ pc[p] = "start"
    /\ src' = [src EXCEPT ![p] = s]
    /\ idx' = [idx EXCEPT ![p] = 1]
    /\ pc' = [pc EXCEPT ![p] = "loop"]
    /\ call' = [call EXCEPT ![p] = [fn |-> "import_from_db"]]
    /\ UNCHANGED <<disk, pre, work, intx, considered, inserted, skipped_bad,
                   skipped_dup, result, merged, ret>>

\* import_from_db: a row with a non-integer epoch, ppid or salt is skipped
TwoImportRowCorrupted(p) ==
    /\ pc[p] = "loop"
    /\ idx[p] <= Len(src[p].rows)
    /\ RowReadable(QueryRow(src[p].rows, idx[p]))
    /\ ~NumericOk(QueryRow(src[p].rows, idx[p]))
    /\ considered' = [considered EXCEPT ![p] = @ + 1]
    /\ skipped_bad' = [skipped_bad EXCEPT ![p] = @ + 1]
    /\ idx' = [idx EXCEPT ![p] = @ + 1]
    /\ UNCHANGED <<disk, pre, work, intx, pc, src, inserted, skipped_dup,
                   result, call, merged, ret>>

\* import_from_db: SELECT EXISTS on the destination; `if exists { continue }`
TwoImportExists(p) ==
    /\ pc[p] = "loop"
    /\ idx[p] <= Len(src[p].rows)
    /\ RowReadable(QueryRow(src[p].rows, idx[p]))
    /\ NumericOk(QueryRow(src[p].rows, idx[p]))
    /\ CanRead(p)
    /\ work' = [work EXCEPT ![p] = View(p)]
    /\ intx' = [intx EXCEPT ![p] = IF @ = "unlocked" THEN "shared" ELSE @]
    /\ considered' = [considered EXCEPT ![p] = @ + 1]
    /\ IF HashExists(View(p), row_hash(Coerce(QueryRow(src[p].rows, idx[p]))))
       THEN /\ skipped_dup' = [skipped_dup EXCEPT ![p] = @ + 1]
            /\ idx' = [idx EXCEPT ![p] = @ + 1]
            /\ UNCHANGED pc
       ELSE /\ pc' = [pc EXCEPT ![p] = "insert"]
            /\ UNCHANGED <<idx, skipped_dup>>
    /\ UNCHANGED <<disk, pre, src, inserted, skipped_bad, result, call, merged, ret>>

\* import_from_db: the EXISTS query is refused the lock; returns the error
\* with its transaction open
TwoImportExistsBusy(p) ==
    /\ pc[p] = "loop"
    /\ idx[p] <= Len(src[p].rows)
    /\ RowReadable(QueryRow(src[p].rows, idx[p]))
    /\ NumericOk(QueryRow(src[p].rows, idx[p]))
    /\ ~CanRead(p)
    /\ result' = [result EXCEPT ![p] = ImportErr("busy")]
    /\ pc' = [pc EXCEPT ![p] = "returned"]
    /\ UNCHANGED <<disk, pre, work, intx, src, idx, considered, inserted,
                   skipped_bad, skipped_dup, call, merged, ret>>

\* import_from_db: INSERT INTO history, INSERT OR IGNORE INTO history_hash
TwoImportInsert(p) ==
    /\ pc[p] = "insert"
    /\ CanWrite(p)
    /\ LET row == Coerce(QueryRow(src[p].rows, idx[p]))
           w1 == InsertHistoryRow(work[p], row)
       IN  work' = [work EXCEPT ![p] =
                        InsertOrIgnoreHash(w1, row_hash(row), last_insert_rowid(w1)).db]
    /\ intx' = [intx EXCEPT ![p] = "reserved"]
    /\ inserted' = [inserted EXCEPT ![p] = @ + 1]
    /\ idx' = [idx EXCEPT ![p] = @ + 1]
    /\ pc' = [pc EXCEPT ![p] = "loop"]
    /\ UNCHANGED <<disk, pre, src, considered, skipped_bad, skipped_dup,
                   result, call, merged, ret>>

\* import_from_db: the INSERT is refused the lock; returns the error with
\* its transaction open
TwoImportInsertBusy(p) ==
    /\ pc[p] = "insert"
    /\ ~CanWrite(p)
    /\ result' = [result EXCEPT ![p] = ImportErr("busy")]
    /\ pc' = [pc EXCEPT ![p] = "returned"]
    /\ UNCHANGED <<disk, pre, work, intx, src, idx, considered, inserted,
                   skipped_bad, skipped_dup, call, merged, ret>>

\* import_from_db: COMMIT. A transaction that wrote takes EXCLUSIVE and
\* writes the pages; one that wrote nothing gives up its SHARED lock,
\* Ok((considered, inserted)) is returned and the process ends.
TwoImportCommit(p) ==
    /\ pc[p] = "loop"
    /\ idx[p] > Len(src[p].rows)
    /\ IF intx[p] = "reserved"
       THEN /\ CanCommit(p)
            /\ intx' = [intx EXCEPT ![p] = "exclusive"]
            /\ pc' = [pc EXCEPT ![p] = "committing"]
            /\ UNCHANGED result
       ELSE /\ intx' = [intx EXCEPT ![p] = "unlocked"]
            /\ pc' = [pc EXCEPT ![p] = "exited"]
            /\ result' = [result EXCEPT ![p] =
                              [NoResult EXCEPT !.op = "import",
                                               !.considered = considered[p],
                                               !.inserted = inserted[p]]]
    /\ UNCHANGED <<disk, pre, work, src, idx, considered, inserted, skipped_bad,
                   skipped_dup, call, merged, ret>>

\* the journal is deleted: the transaction is committed, the lock given up,
\* Ok is returned and the process ends
TwoCommitted(p) ==
    /\ pc[p] = "committing"
    /\ disk' = work[p]
    /\ intx' = [intx EXCEPT ![p] = "unlocked"]
    /\ result' = [result EXCEPT ![p] =
                      IF call[p].fn = "insert_history"
                      THEN [NoResult EXCEPT !.op = "insert",
                                            !.id = last_insert_rowid(work[p])]
                      ELSE [NoResult EXCEPT !.op = "import",
                                            !.considered = considered[p],
                                            !.inserted = inserted[p]]]
    /\ pc' = [pc EXCEPT ![p] = "exited"]
    /\ UNCHANGED <<pre, work, src, idx, considered, inserted, skipped_bad,
                   skipped_dup, call, merged, ret>>

\* import_from_db: COMMIT is refused while another connection reads;
\* returns the error with its transaction open and the lock at PENDING
TwoImportCommitBusy(p) ==
    /\ pc[p] = "loop"
    /\ idx[p] > Len(src[p].rows)
    /\ intx[p] = "reserved"
    /\ ~CanCommit(p)
    /\ intx' = [intx EXCEPT ![p] = "pending"]
    /\ result' = [result EXCEPT ![p] = ImportErr("busy")]
    /\ pc' = [pc EXCEPT ![p] = "returned"]
    /\ UNCHANGED <<disk, pre, work, src, idx, considered, inserted,
                   skipped_bad, skipped_dup, call, merged, ret>>

\* the process ends after an error: its connection is dropped, which rolls
\* back the open transaction and gives up its lock
TwoExit(p) ==
    /\ pc[p] = "returned"
    /\ work' = [work EXCEPT ![p] = disk]
    /\ intx' = [intx EXCEPT ![p] = "unlocked"]
    /\ pc' = [pc EXCEPT ![p] = "exited"]
    /\ UNCHANGED <<disk, pre, src, idx, considered, inserted, skipped_bad,
                   skipped_dup, result, call, merged, ret>>

NextTwo ==
    \/ \E p \in Procs, row \in InsertRowPool : TwoInsertHistory(p, row)
    \/ \E p \in Procs, row \in InsertRowPool : TwoInsertHistoryBusy(p, row)
    \/ \E p \in Procs : TwoInsertHistoryCommit(p)
    \/ \E p \in Procs : TwoInsertHistoryCommitBusy(p)
    \/ \E p \in Procs, s \in TwoSources : TwoImportBegin(p, s)
    \/ \E p \in Procs : TwoImportRowCorrupted(p)
    \/ \E p \in Procs : TwoImportExists(p)
    \/ \E p \in Procs : TwoImportExistsBusy(p)
    \/ \E p \in Procs : TwoImportInsert(p)
    \/ \E p \in Procs : TwoImportInsertBusy(p)
    \/ \E p \in Procs : TwoImportCommit(p)
    \/ \E p \in Procs : TwoImportCommitBusy(p)
    \/ \E p \in Procs : TwoCommitted(p)
    \/ \E p \in Procs : TwoExit(p)

SpecTwo == InitTwo /\ [][NextTwo]_vars

\* history_hash has one entry per fingerprint
KeysUnique(db) == \A e1, e2 \in db.history_hash : e1.hash = e2.hash => e1 = e2

\* both processes ran import_from_db of one source and have ended
BothImportsEnded ==
    /\ \A p \in Procs : pc[p] = "exited" /\ call[p].fn = "import_from_db"
    /\ src[1] = src[2]

\* the fingerprints of the source's rows that were not in the store before
NewSourceHashes ==
    { row_hash(Coerce(src[1].rows[i])) :
          i \in { j \in 1..Len(src[1].rows) : NumericOk(src[1].rows[j]) } }
    \ { e.hash : e \in pre.history_hash }

\* the number of rows with fingerprint h that the processes added
Added(h) == Cardinality(RowsWithHash(disk, h)) - Cardinality(RowsWithHash(pre, h))

\* C30 (as stated): under any interleaving of two processes that each run
\* insert_history or import_from_db on one store, fingerprint uniqueness is
\* kept, and two concurrent imports of one source insert between them exactly
\* one row per distinct source fingerprint that was not already present.
C30_TwoImportsInsertExactlyOne ==
    /\ KeysUnique(disk) /\ StoreConsistent(disk)
    /\ BothImportsEnded => \A h \in NewSourceHashes : Added(h) = 1

\* C30 (amended): fingerprint uniqueness is kept, and two concurrent
\* imports of one source insert between them at most one row per distinct
\* source fingerprint that was not already present: exactly one when at
\* least one of the two imports returned Ok, none when a lock conflict made
\* both return an error.
C30_TwoProcesses ==
    /\ KeysUnique(disk) /\ StoreConsistent(disk)
    /\ BothImportsEnded
       => \A h \in NewSourceHashes :
              Added(h) = IF \E p \in Procs : result[p].ok THEN 1 ELSE 0

\* two imports of one source with new events met on the lock: one was
\* refused, the other committed
C30_Witness ==
    /\ BothImportsEnded
    /\ NewSourceHashes # {}
    /\ \E p, q \in Procs : result[p].ok /\ result[q] = ImportErr("busy")

====
